---- MODULE Spec2Model ----
(***************************************************************************)
(* Verification model of the caravel cocotb test orchestration scripts:    *)
(*   - RunTest.run_command_write_to_file : the command runner (console     *)
(*     noise filter, progressive-line deduplication, log tee)              *)
(*   - RunTest.calculate_netlist_hash / is_same_hash / write_hash : the    *)
(*     netlist hash cache                                                  *)
(*   - RunTest.runTest_iverilog / runTest_vcs : the compile decision and   *)
(*     the process-wide COMPILE_LOCK                                       *)
(* Text is modelled as sequences of one-character strings.                 *)
(***************************************************************************)
EXTENDS Integers, Sequences, FiniteSets, TLC

VARIABLES
    \* ---- command runner (run_command_write_to_file) ----
    r_pc,           \* "idle" | "reading" | "returned" (normal path) |
                    \* "handled" (returned from an except block) | "raised"
    quiet,          \* the quiet parameter
    log_file,       \* "None" | "open" | "closed" : the log file object
    file_text,      \* lines of the log file on disk
    buffered_line,  \* None or the line withheld from the console
    buffered_src,   \* index in history of the buffered line (0: none)
    console,        \* lines printed so far
    history,        \* the lines read from the child so far: raw bytes,
                    \* clean_line and whether it matches a noise pattern
    console_src,    \* for each console line, its index in history
    log_src,        \* indices in history of the lines written to the log
    returncode,     \* process.returncode: <<>> (None) or <<exit code>>
    process,        \* "unbound" | "bound" : the local variable process
    child,          \* the child process: its end of the pipe, its exit
                    \* status, unread output in the pipe, terminate() sent
    logger_log,     \* the records passed to logger.warning / logger.error
    propagated,     \* "" or the exception that left the function
    \* ---- files ----
    files,          \* path -> state of the netlist file
    hash_logs,      \* hash log name -> the hash log file
    \* ---- calls of calculate_netlist_hash ----
    netlist,        \* the file list of the first call
    h_calls,        \* the calls made: argument, returned text, bytes hashed
    \* ---- calls of is_same_hash / write_hash ----
    last,           \* the last call: arguments and result
    stamp,          \* hash log -> <<netlist>> of its last writer, <<>> after an edit
    \* ---- compile / run orchestration ----
    COMPILE_LOCK,   \* RunTest.COMPILE_LOCK: artifacts locked in this process
    binaries,       \* the compiled binaries (sim.vvp, simv) that exist
    built_from,     \* per binary: the netlist hash at the compile that made it
    args,           \* the command line of the process
    inv,            \* the last test invocation
    \* ---- DockerProcess ----
    d_pc,           \* "idle" | "returned" | "exited" (exit(1)) | "raised"
    d_quiet,        \* the quiet attribute
    docker_env,     \* docker binary, local image, requirements files
    d_start,        \* docker_env when run() was called
    dockerfile,     \* "absent" | "stale" | "empty" | "written"
    d_events,       \* the steps run() has taken, with their success
    d_log,          \* the messages given to _print by run()
    d_out,          \* the messages that reached the console
    d_exit,         \* <<>> or <<status>> of the exit() call
    \* ---- OpenFrame_env ----
    active_gpios_num,   \* the active pin count
    gpio,           \* pin -> value driven on gpio{N} by the testbench
    gpio_en,        \* pin -> value driven on gpio{N}_en
    monitor_src,    \* what drives the gpio{N}_monitor signals
    of_last,        \* the last pin operation: arguments, result, log
    of_pc,          \* "start" | "first" | "second": pin operations made
    su_pc,          \* position of the start_up coroutine
    wait_left,      \* rising clock edges its ClockCycles trigger still waits for
    clk_edges,      \* rising clock edges since start_up was called
    power,          \* rail -> value driven on the supply and ground rails
    resetb_tb,      \* value driven on resetb_tb
    su_log          \* what start_up did, each with the clock edge count

runnerVars ==
    <<r_pc, quiet, log_file, file_text, buffered_line, buffered_src, console,
      history, console_src, log_src, returncode, process, child, logger_log,
      propagated>>

fsVars ==
    <<files, hash_logs>>

digestVars ==
    <<netlist, h_calls>>

cacheVars ==
    <<last, stamp>>

orchVars ==
    <<COMPILE_LOCK, binaries, built_from, args, inv>>

dockerVars ==
    <<d_pc, d_quiet, docker_env, d_start, dockerfile, d_events, d_log, d_out,
      d_exit>>

suVars ==
    <<su_pc, wait_left, clk_edges, power, resetb_tb, su_log>>

ofVars ==
    <<active_gpios_num, gpio, gpio_en, monitor_src, of_last, of_pc, suVars>>

otherThanRunner ==
    <<fsVars, digestVars, cacheVars, orchVars, dockerVars, ofVars>>

\* ------------------------------------------------------------------------
\* Bounds
\* ------------------------------------------------------------------------
\* number of lines the child process emits in one run
MaxLines ==
    3

\* length of the file lists passed to calculate_netlist_hash
MaxNetlist ==
    2

\* the highest pin index given to an OpenFrame pin operation
MaxPin ==
    3

\* the highest value given to drive_gpio_range
MaxValue ==
    15

\* ------------------------------------------------------------------------
\* Characters
\* ------------------------------------------------------------------------
\* Python's None
None ==
    <<"None">>

\* the escape byte 0x1B
ESC ==
    "ESC"

\* printable ASCII, code 32 .. 126 (code 96 is written BACKTICK)
Ascii ==
    <<" ","!","\"","#","$","%","&","'","(",")","*","+",",","-",".","/","0","1","2","3","4","5","6","7","8","9",":",";","<","=",">","?","@","A","B","C","D","E","F","G","H","I","J","K","L","M","N","O","P","Q","R","S","T","U","V","W","X","Y","Z","[","\\","]","^","_","BACKTICK","a","b","c","d","e","f","g","h","i","j","k","l","m","n","o","p","q","r","s","t","u","v","w","x","y","z","{","|","}","~">>

\* code point of a character
Code(c) ==
    IF c = ESC THEN 27
    ELSE IF c = "\t" THEN 9
    ELSE IF c = "\n" THEN 10
    ELSE IF c = "\r" THEN 13
    ELSE 31 + (CHOOSE i \in 1..Len(Ascii) : Ascii[i] = c)

\* the characters with code lo .. hi
CodeRange(lo, hi) ==
    {c \in {Ascii[i] : i \in 1..Len(Ascii)} \cup {ESC, "\t", "\n", "\r"} :
        Code(c) >= lo /\ Code(c) <= hi}

\* str.isspace / regex \s on the characters used here
Space ==
    {" ", "\t", "\n", "\r"}

\* regex \d
Digit ==
    {"0", "1", "2", "3", "4", "5", "6", "7", "8", "9"}

\* number of consecutive characters of s, from position i on, that are in S
RECURSIVE RunLen(_, _, _)
RunLen(s, i, S) ==
    IF i > Len(s) \/ s[i] \notin S THEN 0 ELSE 1 + RunLen(s, i + 1, S)

\* lit occurs in s at position i
OccursAt(s, lit, i) ==
    /\ i >= 1
    /\ i + Len(lit) - 1 <= Len(s)
    /\ SubSeq(s, i, i + Len(lit) - 1) = lit

\* re.search(literal)
Contains(s, lit) ==
    \E i \in 1..Len(s) : OccursAt(s, lit, i)

\* re.search(lit1 .* lit2): '.' matches anything but a newline
ContainsGap(s, lit1, lit2) ==
    \E i \in 1..Len(s) : \E j \in 1..Len(s) :
        /\ OccursAt(s, lit1, i)
        /\ j >= i + Len(lit1)
        /\ OccursAt(s, lit2, j)
        /\ \A k \in (i + Len(lit1))..(j - 1) : s[k] # "\n"

\* re.search(^\s+ lit): one or more whitespace characters, then lit
SpacesThen(s, lit) ==
    LET n == RunLen(s, 1, Space)
    IN  n >= 1 /\ \E m \in 1..n : OccursAt(s, lit, m + 1)

\* ------------------------------------------------------------------------
\* ANSI escape stripping: ansi_escape = \x1B[@-_][0-?]*[ -/]*[@-~]
\* ------------------------------------------------------------------------
\* [@-_]
AnsiIntro ==
    CodeRange(64, 95)

\* [0-?]
AnsiParam ==
    CodeRange(48, 63)

\* [ -/]
AnsiInter ==
    CodeRange(32, 47)

\* [@-~]
AnsiFinal ==
    CodeRange(64, 126)

\* length of the escape sequence matched at the head of s (0: no match);
\* the three classes are disjoint, so the greedy match is the only match
AnsiMatchLen(s) ==
    IF Len(s) < 3 \/ s[1] # ESC \/ s[2] \notin AnsiIntro THEN 0
    ELSE LET p == RunLen(s, 3, AnsiParam)
             q == RunLen(s, 3 + p, AnsiInter)
             f == 3 + p + q
         IN  IF f <= Len(s) /\ s[f] \in AnsiFinal THEN f ELSE 0

\* ansi_escape.sub("", line)
RECURSIVE ansi_escape_sub(_)
ansi_escape_sub(s) ==
    IF s = <<>> THEN <<>>
    ELSE LET n == AnsiMatchLen(s)
         IN  IF n > 0 THEN ansi_escape_sub(SubSeq(s, n + 1, Len(s)))
             ELSE <<Head(s)>> \o ansi_escape_sub(Tail(s))

\* str.rstrip()
RECURSIVE rstrip(_)
rstrip(s) ==
    IF s # <<>> /\ s[Len(s)] \in Space THEN rstrip(SubSeq(s, 1, Len(s) - 1))
    ELSE s

\* clean_line = ansi_escape.sub("", line).rstrip()
clean_line(line) ==
    rstrip(ansi_escape_sub(line))

\* ------------------------------------------------------------------------
\* noise_patterns
\* ------------------------------------------------------------------------
LitDockerIo ==
    <<"d","o","c","k","e","r",".","i","o","/">>

LitWhatsNext ==
    <<"W","h","a","t","'","s"," ","n","e","x","t",":">>

LitDockerScout ==
    <<"d","o","c","k","e","r"," ","s","c","o","u","t">>

LitViewSummary ==
    <<"V","i","e","w"," ","a"," ","s","u","m","m","a","r","y"," ","o","f"," ","i","m","a","g","e">>

LitPlatform ==
    <<"p","l","a","t","f","o","r","m">>

LitDoesNotMatch ==
    <<"d","o","e","s"," ","n","o","t"," ","m","a","t","c","h">>

LitDeprecationWarning ==
    <<"D","e","p","r","e","c","a","t","i","o","n","W","a","r","n","i","n","g">>

LitRuntimeWarning ==
    <<"R","u","n","t","i","m","e","W","a","r","n","i","n","g">>

LitSchedulerAdd ==
    <<"c","o","c","o","t","b",".","s","c","h","e","d","u","l","e","r",".","a","d","d">>

LitUsrLocalPython ==
    <<"/","u","s","r","/","l","o","c","a","l","/","l","i","b","/","p","y","t","h","o","n">>

LitPyColon ==
    <<".","p","y",":">>

LitCocotbDot ==
    <<"c","o","c","o","t","b",".">>

LitScheduler ==
    <<"s","c","h","e","d","u","l","e","r">>

LitLog ==
    <<"l","o","g">>

LitWarningBanner ==
    <<"=","=","=","W","A","R","N","I","N","G","=","=","=">>

LitSky130 ==
    <<"s","k","y","1","3","0">>

LitVcdInfo ==
    <<"V","C","D"," ","i","n","f","o",":">>

LitSelfDot ==
    <<"s","e","l","f",".">>

LitOptHomebrew ==
    <<"/","o","p","t","/","h","o","m","e","b","r","e","w","/">>

LitGpiEmbed ==
    <<"g","p","i","_","e","m","b","e","d",".","c","p","p">>

LitGpiCommon ==
    <<"G","p","i","C","o","m","m","o","n",".","c","p","p">>

LitGpiPrintRegistered ==
    <<"i","n"," ","g","p","i","_","p","r","i","n","t","_","r","e","g","i","s","t","e","r","e","d">>

LitSetProgramName ==
    <<"i","n"," ","s","e","t","_","p","r","o","g","r","a","m","_","n","a","m","e","_","i","n","_","v","e","n","v">>

LitVpiRegistered ==
    <<"V","P","I"," ","r","e","g","i","s","t","e","r","e","d">>

LitPytestNotFound ==
    <<"p","y","t","e","s","t"," ","n","o","t"," ","f","o","u","n","d">>

\* re.search(^-v\s+/)
NoiseVolume(s) ==
    LET n == RunLen(s, 3, Space)
    IN  /\ Len(s) >= 4
        /\ s[1] = "-"
        /\ s[2] = "v"
        /\ n >= 1
        /\ 3 + n <= Len(s)
        /\ s[3 + n] = "/"

\* re.search(^\s*$)
NoiseEmpty(s) ==
    RunLen(s, 1, Space) = Len(s)

\* re.search(^\*+$): '$' also matches before a final newline
NoiseStars(s) ==
    LET n == RunLen(s, 1, {"*"})
    IN  /\ n >= 1
        /\ \/ n = Len(s)
           \/ n = Len(s) - 1 /\ s[Len(s)] = "\n"

\* re.search(^\*\*\s)
NoiseTableLine(s) ==
    /\ Len(s) >= 3
    /\ s[1] = "*"
    /\ s[2] = "*"
    /\ s[3] \in Space

\* re.search(/usr/local/lib/python.*\.py:\d+:)
NoisePythonPath(s) ==
    \E i \in 1..Len(s) : \E j \in 1..Len(s) :
        LET n == RunLen(s, j + Len(LitPyColon), Digit)
            e == j + Len(LitPyColon) + n
        IN  /\ OccursAt(s, LitUsrLocalPython, i)
            /\ j >= i + Len(LitUsrLocalPython)
            /\ OccursAt(s, LitPyColon, j)
            /\ \A k \in (i + Len(LitUsrLocalPython))..(j - 1) : s[k] # "\n"
            /\ n >= 1
            /\ e <= Len(s)
            /\ s[e] = ":"

\* is_noise = any(p.search(clean_line) for p in noise_patterns)
is_noise(s) ==
    \/ NoiseVolume(s)
    \/ Contains(s, LitDockerIo)
    \/ Contains(s, LitWhatsNext)
    \/ Contains(s, LitDockerScout)
    \/ Contains(s, LitViewSummary)
    \/ ContainsGap(s, LitPlatform, LitDoesNotMatch)
    \/ NoiseEmpty(s)
    \/ Contains(s, LitDeprecationWarning)
    \/ Contains(s, LitRuntimeWarning)
    \/ NoiseStars(s)
    \/ NoiseTableLine(s)
    \/ SpacesThen(s, <<"*", "*">>)
    \/ Contains(s, LitSchedulerAdd)
    \/ NoisePythonPath(s)
    \/ SpacesThen(s, LitCocotbDot \o LitScheduler)
    \/ SpacesThen(s, LitCocotbDot \o LitLog)
    \/ ContainsGap(s, LitWarningBanner, LitSky130)
    \/ OccursAt(s, LitVcdInfo, 1)
    \/ SpacesThen(s, LitSelfDot)
    \/ OccursAt(s, LitOptHomebrew, 1)
    \/ Contains(s, LitGpiEmbed)
    \/ Contains(s, LitGpiCommon)
    \/ Contains(s, LitGpiPrintRegistered)
    \/ Contains(s, LitSetProgramName)
    \/ Contains(s, LitVpiRegistered)
    \/ Contains(s, LitPytestNotFound)

\* ------------------------------------------------------------------------
\* Output of the child process: the raw lines readline() may return
\* ------------------------------------------------------------------------
LineComp ==
    <<"C","o","m","p","\n">>

LineCompil ==
    <<"C","o","m","p","i","l","\n">>

LineCompiling ==
    <<"C","o","m","p","i","l","i","n","g","\n">>

LineCompilingFoo ==
    <<"C","o","m","p","i","l","i","n","g"," ","f","o","o",".","v","\n">>

LineLinking ==
    <<"L","i","n","k","i","n","g","\n">>

LineLinkingPadded ==
    <<"L","i","n","k","i","n","g"," "," ","\r","\n">>

LineColouredComp ==
    <<ESC,"[","3","2","m","C","o","m","p",ESC,"[","0","m","\n">>

LineEmpty ==
    <<"\n">>

LineBlank ==
    <<" ","\t","\n">>

LineStars ==
    <<"*","*","*","\n">>

LineDeprecation ==
    <<"x"," ","D","e","p","r","e","c","a","t","i","o","n","W","a","r","n","i","n","g","\n">>

RawLines ==
    {LineComp, LineCompil, LineCompiling, LineCompilingFoo, LineLinking, LineLinkingPadded,
     LineColouredComp, LineEmpty, LineBlank, LineStars, LineDeprecation}

\* ------------------------------------------------------------------------
\* run_command_write_to_file
\* ------------------------------------------------------------------------
\* the three header writes made when a log file is given
LogHeader ==
    << <<"command:">>, <<"$cmd">>, <<>>, <<"-", "x", "60">> >>

\* what an earlier command left in the log file (it is opened for append)
PriorText ==
    << <<"earlier output">> >>

\* process.returncode before the child has exited (None)
NoCode ==
    <<>>

StartsWith(longer, shorter) ==
    /\ Len(shorter) <= Len(longer)
    /\ SubSeq(longer, 1, Len(shorter)) = shorter

is_progressive_duplicate_any_pair(line1, line2) ==
    ~(line1 = <<>> \/ line2 = None \/ line2 = <<>>)

is_progressive_duplicate_one_way(line1, line2) ==
    IF line1 = <<>> \/ line2 = None \/ line2 = <<>> THEN FALSE
    ELSE StartsWith(line2, line1) /\ Len(line2) > Len(line1) + 2

\* is_progressive_duplicate(line1, line2): line2 may be None
is_progressive_duplicate(line1, line2) ==
    IF line1 = <<>> \/ line2 = None \/ line2 = <<>> THEN FALSE
    ELSE LET shorter == IF Len(line1) < Len(line2) THEN line1 ELSE line2
             longer == IF Len(line1) < Len(line2) THEN line2 ELSE line1
         IN  StartsWith(longer, shorter) /\ Len(longer) > Len(shorter) + 2

flush_buffer_silent(out, buf) ==
    out

\* flush_buffer(): the console after printing the buffered line, if any
flush_buffer(out, buf) ==
    IF buf # None THEN Append(out, buf) ELSE out

\* the history index of each console line after a flush (bookkeeping)
FlushSrc ==
    IF flush_buffer(console, buffered_line) = console THEN console_src
    ELSE Append(console_src, buffered_src)

\* the exceptions the two except clauses tell apart
Exceptions ==
    {"KeyboardInterrupt", "Exception"}

\* exit codes of a child: success and failure
ExitCodes ==
    {0, 1}

\* no child process
NoChild ==
    [out |-> "none", status |-> NoCode, unread |-> FALSE, signalled |-> FALSE]

\* the child just after subprocess.Popen: running, its output piped
NewChild ==
    [out |-> "open", status |-> NoCode, unread |-> FALSE, signalled |-> FALSE]

\* lines 494 and 497: the record the except block logs
HandlerRecord(exc) ==
    IF exc = "KeyboardInterrupt"
    THEN [level |-> "warning", msg |-> "Process interrupted by user"]
    ELSE [level |-> "error", msg |-> "Process error"]

\* lines 493-506: what the except blocks and the return statement do with
\* the local variable process. When Popen raised, process was never bound:
\* process.terminate() raises UnboundLocalError (swallowed by the bare
\* except at 500 for a generic exception, not for KeyboardInterrupt) and
\* so does the return statement.
AfterException(exc, proc) ==
    IF proc = "unbound"
    THEN [pc |-> "raised", propagated |-> "UnboundLocalError", signalled |-> FALSE]
    ELSE [pc |-> "handled", propagated |-> "", signalled |-> TRUE]

loop_break_on_exit(out_empty, poll) ==
    poll # NoCode

\* line 459: if not out and process.poll() is not None
loop_break(out_empty, poll) ==
    out_empty /\ poll # NoCode

\* lines 414-420 and 448-453: open the log, write the header, spawn the child
Spawn(q, withFile) ==
    /\ r_pc = "idle"
    /\ r_pc' = "reading"
    /\ quiet' = q
    /\ IF withFile
       THEN /\ log_file' = "open"
            /\ file_text' = file_text \o LogHeader
       ELSE UNCHANGED <<log_file, file_text>>
    /\ buffered_line' = None
    /\ buffered_src' = 0
    /\ process' = "bound"
    /\ child' = NewChild
    /\ UNCHANGED <<console, history, console_src, log_src, returncode,
                   logger_log, propagated>>
    /\ UNCHANGED otherThanRunner

\* lines 414-420, 448-453 and 493-506: subprocess.Popen raises exc
SpawnFails(q, withFile, exc) ==
    /\ r_pc = "idle"
    /\ r_pc' = AfterException(exc, process).pc
    /\ propagated' = AfterException(exc, process).propagated
    /\ quiet' = q
    /\ IF withFile
       THEN /\ log_file' = "closed"
            /\ file_text' = file_text \o LogHeader
       ELSE UNCHANGED <<log_file, file_text>>
    /\ buffered_line' = None
    /\ buffered_src' = 0
    /\ logger_log' = Append(logger_log, HandlerRecord(exc))
    /\ UNCHANGED <<console, history, console_src, log_src, returncode,
                   process, child>>
    /\ UNCHANGED otherThanRunner

\* the child (or a descendant holding the pipe) writes output
ChildWrite ==
    /\ r_pc = "reading"
    /\ child.out = "open"
    /\ ~child.unread
    /\ Len(history) < MaxLines
    /\ child' = [child EXCEPT !.unread = TRUE]
    /\ UNCHANGED <<r_pc, quiet, log_file, file_text, buffered_line,
                   buffered_src, console, history, console_src, log_src,
                   returncode, process, logger_log, propagated>>
    /\ UNCHANGED otherThanRunner

\* the child closes its standard output and keeps running
ChildClose ==
    /\ r_pc = "reading"
    /\ child.out = "open"
    /\ child' = [child EXCEPT !.out = "closed"]
    /\ UNCHANGED <<r_pc, quiet, log_file, file_text, buffered_line,
                   buffered_src, console, history, console_src, log_src,
                   returncode, process, logger_log, propagated>>
    /\ UNCHANGED otherThanRunner

\* the child exits with an exit code; its end of the pipe is closed
ChildExit(code) ==
    /\ r_pc = "reading"
    /\ child.status = NoCode
    /\ child' = [child EXCEPT !.out = "closed", !.status = <<code>>]
    /\ UNCHANGED <<r_pc, quiet, log_file, file_text, buffered_line,
                   buffered_src, console, history, console_src, log_src,
                   returncode, process, logger_log, propagated>>
    /\ UNCHANGED otherThanRunner

\* lines 458-488: one iteration of the read loop on a non-empty readline();
\* more output may or may not be left in the pipe
ReadLine(out, more) ==
    /\ r_pc = "reading"
    /\ Len(history) < MaxLines
    /\ child.unread
    /\ child' = [child EXCEPT !.unread = more]
    /\ LET cl == clean_line(out)
           idx == Len(history) + 1
           show == ~quiet /\ cl # <<>> /\ ~is_noise(cl)
           dup == is_progressive_duplicate(cl, buffered_line)
           blen == IF buffered_line = None THEN 0 ELSE Len(buffered_line)
       IN  /\ history' = Append(history,
                    [raw |-> out, clean |-> cl, noise |-> is_noise(cl)])
           /\ IF log_file # "None" /\ cl # <<>>
              THEN /\ file_text' = Append(file_text, cl)
                   /\ log_src' = log_src \cup {idx}
              ELSE UNCHANGED <<file_text, log_src>>
           /\ IF show /\ dup
              THEN /\ IF Len(cl) > blen
                      THEN buffered_line' = cl /\ buffered_src' = idx
                      ELSE UNCHANGED <<buffered_line, buffered_src>>
                   /\ UNCHANGED <<console, console_src>>
              ELSE IF show
              THEN /\ console' = flush_buffer(console, buffered_line)
                   /\ console_src' = FlushSrc
                   /\ buffered_line' = cl
                   /\ buffered_src' = idx
              ELSE UNCHANGED <<console, console_src, buffered_line, buffered_src>>
    /\ UNCHANGED <<r_pc, quiet, log_file, returncode, process, logger_log,
                   propagated>>
    /\ UNCHANGED otherThanRunner

\* lines 458-460, 491, 502-506: readline() returns b"" (the pipe is empty
\* and closed by every writer), poll() reports the exit status, the loop
\* breaks, the buffer is flushed, the log closed and the code returned.
\* While readline() returns b"" and poll() returns None the loop spins
\* without changing anything.
Finish ==
    /\ r_pc = "reading"
    /\ loop_break(~child.unread /\ child.out = "closed", child.status)
    /\ r_pc' = "returned"
    /\ console' = flush_buffer(console, buffered_line)
    /\ console_src' = FlushSrc
    /\ buffered_line' = None
    /\ buffered_src' = 0
    /\ log_file' = IF log_file # "None" THEN "closed" ELSE log_file
    /\ returncode' = child.status
    /\ UNCHANGED <<quiet, file_text, history, log_src, process, child,
                   logger_log, propagated>>
    /\ UNCHANGED otherThanRunner

\* lines 457-488 and 493-506: exc is raised inside the read loop (an
\* interrupt from the keyboard, a failed write to the log or the console).
\* The buffered line is not flushed. terminate() polls the child first, so
\* process.returncode is the exit status if the child has exited already,
\* and None otherwise.
ReadFails(exc) ==
    /\ r_pc = "reading"
    /\ r_pc' = AfterException(exc, process).pc
    /\ propagated' = AfterException(exc, process).propagated
    /\ child' = [child EXCEPT
                    !.signalled = AfterException(exc, process).signalled
                                    /\ child.status = NoCode]
    /\ logger_log' = Append(logger_log, HandlerRecord(exc))
    /\ log_file' = IF log_file # "None" THEN "closed" ELSE log_file
    /\ returncode' = child.status
    /\ UNCHANGED <<quiet, file_text, buffered_line, buffered_src, console,
                   history, console_src, log_src, process>>
    /\ UNCHANGED otherThanRunner

\* the state before the call; the log file holds the output of an earlier
\* command
RunnerStart ==
    /\ r_pc = "idle"
    /\ quiet = TRUE
    /\ log_file = "None"
    /\ file_text = PriorText
    /\ buffered_line = None
    /\ buffered_src = 0
    /\ console = <<>>
    /\ history = <<>>
    /\ console_src = <<>>
    /\ log_src = {}
    /\ returncode = NoCode
    /\ process = "unbound"
    /\ child = NoChild
    /\ logger_log = <<>>
    /\ propagated = ""

\* ------------------------------------------------------------------------
\* Files on disk
\* ------------------------------------------------------------------------
PathA ==
    <<"a">>

PathB ==
    <<"b">>

\* a file name that ends in a blank
PathSp ==
    <<"b", " ">>

Paths ==
    {PathA, PathB, PathSp}

Missing ==
    [st |-> "missing", data |-> <<>>]

Denied ==
    [st |-> "denied", data |-> <<>>]

Readable(d) ==
    [st |-> "ok", data |-> d]

\* file contents, as byte sequences
Contents ==
    {<<>>, <<1>>, <<2, 1>>}

FileStates ==
    {Missing, Denied} \cup {Readable(d) : d \in Contents}

\* the file lists of length at most n
RECURSIVE ListsUpTo(_)
ListsUpTo(n) ==
    IF n = 0 THEN {<<>>}
    ELSE LET shorter == ListsUpTo(n - 1)
         IN  shorter \cup {Append(l, p) : l \in shorter, p \in Paths}

Netlists ==
    ListsUpTo(MaxNetlist)

\* ------------------------------------------------------------------------
\* calculate_netlist_hash
\* ------------------------------------------------------------------------
\* Python's str comparison: lexicographic by code point
RECURSIVE StrLess(_, _)
StrLess(x, y) ==
    IF y = <<>> THEN FALSE
    ELSE IF x = <<>> THEN TRUE
    ELSE IF Code(x[1]) < Code(y[1]) THEN TRUE
    ELSE IF Code(x[1]) > Code(y[1]) THEN FALSE
    ELSE StrLess(Tail(x), Tail(y))

\* x placed into the sorted list s, after the elements not greater than it
RECURSIVE Insert(_, _)
Insert(x, s) ==
    IF s = <<>> THEN <<x>>
    ELSE IF StrLess(x, s[1]) THEN <<x>> \o s
    ELSE <<s[1]>> \o Insert(x, Tail(s))

\* the list without its repeated elements
RECURSIVE Dedup(_)
Dedup(l) ==
    IF l = <<>> THEN <<>>
    ELSE LET front == Dedup(SubSeq(l, 1, Len(l) - 1))
         IN  IF \E i \in 1..Len(front) : front[i] = l[Len(l)] THEN front
             ELSE Append(front, l[Len(l)])

RECURSIVE sorted_stable(_)
sorted_stable(l) ==
    IF l = <<>> THEN <<>>
    ELSE Insert(l[Len(l)], sorted_stable(SubSeq(l, 1, Len(l) - 1)))

sorted_unsorted(l) ==
    l

sorted_unique(l) ==
    sorted_stable(Dedup(l))

\* sorted(netlist)
sorted(l) ==
    sorted_stable(l)

\* the state of a new hashlib.sha256() object; SHA-256 is modelled by a
\* 16-bit polynomial hash
ShaInit ==
    7

\* hash_func.update(chunk) for every chunk of one file
RECURSIVE sha_update(_, _)
sha_update(h, data) ==
    IF data = <<>> THEN h
    ELSE sha_update((h * 31 + Head(data) + 1) % 65521, Tail(data))

HexDigits ==
    <<"0","1","2","3","4","5","6","7","8","9","a","b","c","d","e","f">>

\* hash_func.hexdigest()
hexdigest(h) ==
    <<HexDigits[((h \div 4096) % 16) + 1], HexDigits[((h \div 256) % 16) + 1],
      HexDigits[((h \div 16) % 16) + 1], HexDigits[(h % 16) + 1]>>

FileNotFoundText ==
    <<"F","i","l","e"," ","n","o","t"," ","f","o","u","n","d",":"," ">>

PermissionDeniedText ==
    <<"P","e","r","m","i","s","s","i","o","n"," ","d","e","n","i","e","d",":"," ">>

\* the loop of lines 513-521 over the sorted list s: the returned text, the
\* bytes passed to update() and whether an exception was caught
RECURSIVE HashRun(_, _, _)
HashRun(s, h, fed) ==
    IF s = <<>> THEN [err |-> FALSE, text |-> hexdigest(h), fed |-> fed]
    ELSE LET f == files[Head(s)]
         IN  IF f.st = "missing"
             THEN [err |-> TRUE, text |-> FileNotFoundText \o Head(s), fed |-> fed]
             ELSE IF f.st = "denied"
             THEN [err |-> TRUE, text |-> PermissionDeniedText \o Head(s), fed |-> fed]
             ELSE HashRun(Tail(s), sha_update(h, f.data), fed \o f.data)

calculate_netlist_hash(netlist_arg) ==
    HashRun(sorted(netlist_arg), ShaInit, <<>>)

\* ------------------------------------------------------------------------
\* is_same_hash / write_hash
\* ------------------------------------------------------------------------
HashLogs ==
    {"h1", "h2"}

NoFile ==
    [exists |-> FALSE, text |-> <<>>]

\* a Python value: the int 0 or a str
PyInt0 ==
    [t |-> "int", s |-> <<"0">>]

PyStr(s) ==
    [t |-> "str", s |-> s]

RECURSIVE lstrip(_)
lstrip(s) ==
    IF s # <<>> /\ s[1] \in Space THEN lstrip(Tail(s)) ELSE s

\* str.strip()
strip(s) ==
    lstrip(rstrip(s))

read_old_hash_default_digest(logrec) ==
    IF ~logrec.exists THEN PyStr(hexdigest(ShaInit)) ELSE PyStr(strip(logrec.text))

\* lines 525-529: old_hash
read_old_hash(logrec) ==
    IF ~logrec.exists THEN PyInt0 ELSE PyStr(strip(logrec.text))

written_text_appended(logrec, new_hash) ==
    logrec.text \o new_hash

\* lines 536-537: the content of the hash log after open(.., "w"), write
written_text(logrec, new_hash) ==
    new_hash

\* line 532: new_hash == old_hash
is_same_hash(logrec, netlist_arg) ==
    PyStr(calculate_netlist_hash(netlist_arg).text) = read_old_hash(logrec)

\* the hash logs after write_hash(netlist_arg) on the log named lg
AfterWriteHash(lg, netlist_arg) ==
    [hash_logs EXCEPT ![lg] =
        [exists |-> TRUE,
         text |-> written_text(hash_logs[lg], calculate_netlist_hash(netlist_arg).text)]]

\* ------------------------------------------------------------------------
\* runTest_iverilog / runTest_vcs
\* ------------------------------------------------------------------------
\* the tests of a regression: compilation directory, hash log, hex log,
\* netlist and simulation type of each
Tests ==
    {[name |-> "t1", compilation_dir |-> "d1", hash_log |-> "h1",
      hex_log |-> "t1/firmware.log", netlist |-> <<PathB, PathA>>, sim |-> "RTL"],
     [name |-> "t2", compilation_dir |-> "d1", hash_log |-> "h2",
      hex_log |-> "t2/firmware.log", netlist |-> <<PathSp>>, sim |-> "RTL"],
     [name |-> "t3", compilation_dir |-> "d2", hash_log |-> "h2",
      hex_log |-> "t3/firmware.log", netlist |-> <<PathSp>>, sim |-> "GL_SDF"]}

\* f"{self.test.compilation_dir}/sim.vvp" and f"{self.test.compilation_dir}/simv"
Artifact(t, binary_name) ==
    <<t.compilation_dir, binary_name>>

Artifacts ==
    {Artifact(t, b) : t \in Tests, b \in {"sim.vvp", "simv"}}

\* the command line of a process: one simulator, the compile flags, the
\* OpenFrame switch
ArgSets ==
    [iverilog : BOOLEAN, vcs : BOOLEAN, compile : BOOLEAN, compile_only : BOOLEAN,
     openframe : BOOLEAN]

\* the exit codes of the hex generation command
HexStates ==
    {0, 1}

\* no exception
NoError ==
    <<>>

\* no binary, hence no compile that made it
NoBuild ==
    <<>>

NoInvocation ==
    [kind |-> "none", test |-> "", artifact |-> <<"", "">>,
     binary_before |-> FALSE, compile_flag |-> FALSE, locked_before |-> FALSE,
     same |-> FALSE, hash_checked |-> FALSE, rule |-> 0, raised |-> FALSE,
     error |-> NoError, hex |-> NoCode, compile_exit |-> NoCode, events |-> <<>>]

\* lines 121-123: the RuntimeError raised when hex generation fails
HexError(t) ==
    <<"RuntimeError", "Fail to compile the C code for more info refer to",
      t.hex_log>>

\* lines 176-178: the RuntimeError raised for a GL_SDF test under Icarus
SdfError(t) ==
    <<"RuntimeError", "iverilog can't run SDF for test", t.name,
      "Please use anothor simulator like cvc">>

hex_generate_lenient(hex_gen_state) ==
    "hex_generated"

\* lines 112-134: hex_generate raises unless the command exited with 0
hex_generate(hex_gen_state) ==
    IF hex_gen_state # 0 THEN "raise" ELSE "hex_generated"

sdf_unsupported_never(sim) ==
    FALSE

\* line 175: if self.test.sim == "GL_SDF"
sdf_unsupported(sim) ==
    sim = "GL_SDF"

run_step_always(compile_only) ==
    <<"run">>

\* lines 203-204 and 323-324: if not self.args.compile_only: run
run_step(compile_only) ==
    IF compile_only THEN <<>> ELSE <<"run">>

\* lines 27-28: if not self.args.compile_only: self.test.end_of_test()
end_of_test_step(compile_only) ==
    IF compile_only THEN <<>> ELSE <<"end_of_test">>

compile_rule_ignores_lock(binary_exists, compile_flag, same, locked) ==
    IF ~binary_exists THEN 1
    ELSE IF compile_flag THEN 2
    ELSE IF ~same THEN 3
    ELSE 4

compile_rule_ignores_flag(binary_exists, compile_flag, same, locked) ==
    IF ~binary_exists THEN 1
    ELSE IF ~same /\ ~locked THEN 3
    ELSE 4

\* lines 181-199 and 299-319: which branch of the if / elif chain is taken.
\* same is the value of self.is_same_hash(self.test.netlist), which is only
\* called when the first two conditions are false.
compile_rule(binary_exists, compile_flag, same, locked) ==
    IF ~binary_exists THEN 1
    ELSE IF compile_flag THEN 2
    ELSE IF ~same /\ ~locked THEN 3
    ELSE 4

\* the calls made by the taken branch, in order
BranchEvents(rule) ==
    IF rule \in {1, 2} THEN <<"compile", "write_hash">>
    ELSE IF rule = 3 THEN <<"is_same_hash", "compile">>
    ELSE <<"is_same_hash">>

\* iverilog_compile / vcs_compile: the old binary is removed, and the new
\* one exists if the compile command succeeded
AfterCompile(artifact, ok) ==
    IF ok THEN binaries \cup {artifact} ELSE binaries \ {artifact}

\* the netlist hash each binary was compiled from: the compile reads the
\* netlist files as they are when it runs
AfterBuild(artifact, t, ok) ==
    [built_from EXCEPT ![artifact] =
        IF ok THEN calculate_netlist_hash(t.netlist).text ELSE NoBuild]

AfterLockAdd_on_success(artifact, compile_exit) ==
    IF compile_exit \in {NoCode, <<0>>} THEN COMPILE_LOCK \cup {artifact}
    ELSE COMPILE_LOCK

\* lines 200-202 and 320-322: RunTest.COMPILE_LOCK.add(...); the value
\* returned by the compile command was discarded
AfterLockAdd(artifact, compile_exit) ==
    COMPILE_LOCK \cup {artifact}

\* lines 226-231, 342-357: the exit code of the compile command, if it ran
CompileExit(rule, ok) ==
    IF rule \in {1, 2, 3} THEN <<IF ok THEN 0 ELSE 1>> ELSE NoCode

\* lines 181-204 (Icarus) and 299-324 (VCS): the compile decision, the lock
\* and the simulation run
CompileAndRun(kind, t, artifact, ok, hex, pre, post) ==
    LET same == is_same_hash(hash_logs[t.hash_log], t.netlist)
        rule == compile_rule(artifact \in binaries, args.compile, same,
                             artifact \in COMPILE_LOCK)
    IN  /\ binaries' = IF rule \in {1, 2, 3} THEN AfterCompile(artifact, ok)
                       ELSE binaries
        /\ hash_logs' = AfterWriteHash(t.hash_log, t.netlist)
        /\ built_from' = IF rule \in {1, 2, 3} THEN AfterBuild(artifact, t, ok)
                         ELSE built_from
        /\ COMPILE_LOCK' = AfterLockAdd(artifact, CompileExit(rule, ok))
        /\ inv' = [kind |-> kind, test |-> t.name, artifact |-> artifact,
                   binary_before |-> artifact \in binaries,
                   compile_flag |-> args.compile,
                   locked_before |-> artifact \in COMPILE_LOCK,
                   same |-> same,
                   hash_checked |-> rule \in {3, 4},
                   rule |-> rule, raised |-> FALSE, error |-> NoError,
                   hex |-> hex,
                   compile_exit |-> CompileExit(rule, ok),
                   events |-> pre \o BranchEvents(rule) \o <<"lock_add">>
                        \o run_step(args.compile_only) \o post]
        /\ UNCHANGED <<files, args>>
        /\ UNCHANGED <<runnerVars, digestVars, cacheVars, dockerVars, ofVars>>

\* runTest -> runTest_iverilog for test t; ok: the compile command succeeds;
\* hex: the exit code of the hex generation, if it ran; pre: what run_test
\* did before, post: what it does after a return
RunTestIverilog(t, ok, hex, pre, post) ==
    /\ args.iverilog
    /\ IF sdf_unsupported(t.sim)
       THEN /\ inv' = [NoInvocation EXCEPT !.kind = "iverilog", !.raised = TRUE,
                            !.test = t.name,
                            !.error = SdfError(t),
                            !.hex = hex,
                            !.events = pre,
                            !.artifact = Artifact(t, "sim.vvp"),
                            !.binary_before = Artifact(t, "sim.vvp") \in binaries,
                            !.compile_flag = args.compile,
                            !.locked_before = Artifact(t, "sim.vvp") \in COMPILE_LOCK]
            /\ UNCHANGED <<files, hash_logs, COMPILE_LOCK, binaries, built_from, args>>
            /\ UNCHANGED <<runnerVars, digestVars, cacheVars, dockerVars, ofVars>>
       ELSE CompileAndRun("iverilog", t, Artifact(t, "sim.vvp"), ok, hex, pre, post)

\* runTest -> runTest_vcs for test t; ok: vlogan and vcs succeed
RunTestVcs(t, ok, hex, pre, post) ==
    /\ ~args.iverilog
    /\ args.vcs
    /\ CompileAndRun("vcs", t, Artifact(t, "simv"), ok, hex, pre, post)

\* lines 119-123: hex generation failed, the RuntimeError leaves run_test
HexGenerateRaises(t, hex_gen_state) ==
    LET artifact == Artifact(t, IF args.iverilog THEN "sim.vvp" ELSE "simv")
    IN  /\ inv' = [NoInvocation EXCEPT !.kind = "hex_generate", !.raised = TRUE,
                        !.test = t.name,
                        !.error = HexError(t),
                        !.hex = <<hex_gen_state>>,
                        !.events = <<"hex_generate">>,
                        !.artifact = artifact,
                        !.binary_before = artifact \in binaries,
                        !.compile_flag = args.compile,
                        !.locked_before = artifact \in COMPILE_LOCK]
        /\ UNCHANGED <<files, hash_logs, COMPILE_LOCK, binaries, built_from, args>>
        /\ UNCHANGED <<runnerVars, digestVars, cacheVars, dockerVars, ofVars>>

\* run_test for test t; hex_gen_state: the exit code of the hex generation
\* command; ok: the compile command succeeds
run_test(t, hex_gen_state, ok) ==
    IF args.openframe
    THEN \/ RunTestIverilog(t, ok, NoCode, <<>>,
                            end_of_test_step(args.compile_only))
         \/ RunTestVcs(t, ok, NoCode, <<>>, end_of_test_step(args.compile_only))
    ELSE IF hex_generate(hex_gen_state) = "hex_generated"
    THEN \/ RunTestIverilog(t, ok, <<hex_gen_state>>, <<"hex_generate">>,
                            end_of_test_step(args.compile_only))
         \/ RunTestVcs(t, ok, <<hex_gen_state>>, <<"hex_generate">>,
                       end_of_test_step(args.compile_only))
    ELSE HexGenerateRaises(t, hex_gen_state)

\* the user edits or removes a netlist file between two tests
EditNetlist(p, st) ==
    /\ files[p] # st
    /\ files' = [files EXCEPT ![p] = st]
    /\ inv' = NoInvocation
    /\ UNCHANGED <<hash_logs, COMPILE_LOCK, binaries, built_from, args>>
    /\ UNCHANGED <<runnerVars, digestVars, cacheVars, dockerVars, ofVars>>

\* the process ends and a new one starts: the class attribute COMPILE_LOCK
\* is an empty set again, the command line may differ
Restart(a) ==
    /\ COMPILE_LOCK # {}
    /\ COMPILE_LOCK' = {}
    /\ args' = a
    /\ inv' = NoInvocation
    /\ UNCHANGED <<files, hash_logs, binaries, built_from>>
    /\ UNCHANGED <<runnerVars, digestVars, cacheVars, dockerVars, ofVars>>

OrchIdle ==
    /\ COMPILE_LOCK = {}
    /\ binaries = {}
    /\ built_from = [a \in Artifacts |-> NoBuild]
    /\ args = [iverilog |-> TRUE, vcs |-> FALSE, compile |-> FALSE,
               compile_only |-> FALSE, openframe |-> FALSE]
    /\ inv = NoInvocation


\* ------------------------------------------------------------------------
\* DockerProcess
\* ------------------------------------------------------------------------
\* the machine a DockerProcess runs on: is the docker binary installed, is
\* the image present locally, does
\* {user_project_path}/verilog/dv/cocotb/requirements.txt exist, does
\* requirements.txt exist in the current working directory
DockerEnvs ==
    [installed : BOOLEAN, image : BOOLEAN, project_requirements : BOOLEAN,
     cwd_requirements : BOOLEAN]

\* {sim_path}/Dockerfile before run()
DockerfileStates ==
    {"absent", "stale"}

\* _print(msg): nothing is printed in quiet mode
_print(q, msg) ==
    IF q THEN <<>> ELSE <<msg>>

docker_inspect_absent_image(e) ==
    IF e.image THEN "ok" ELSE "CalledProcessError"

\* subprocess.run(["docker", "inspect", image_name], check=True)
docker_inspect(e) ==
    IF ~e.installed THEN "FileNotFoundError"
    ELSE IF e.image THEN "ok"
    ELSE "CalledProcessError"

\* pull_docker_image: the steps taken, what _print was given, what reached
\* the console, and whether exit(1) was called
pull_docker_image(e, q, pull_ok) ==
    LET r == docker_inspect(e)
        insp == [step |-> "inspect", ok |-> r = "ok"]
    IN  IF r = "FileNotFoundError"
        THEN [events |-> <<insp>>,
              log |-> <<"Error: Docker is not installed.",
                        "Please install Docker and try again.">>,
              out |-> _print(q, "Error: Docker is not installed.")
                        \o _print(q, "Please install Docker and try again."),
              exit |-> <<1>>,
              image |-> e.image]
        ELSE LET first == IF r = "ok" THEN "Checking for docker image updates..."
                          ELSE "Pulling docker image"
                 cmd == IF r = "ok" THEN "pull -q" ELSE "pull"
             IN  [events |-> <<insp, [step |-> cmd, ok |-> pull_ok]>>,
                  log |-> <<first>> \o (IF pull_ok THEN <<>>
                                        ELSE <<"Error: Failed to pull">>),
                  out |-> _print(q, first)
                            \o (IF pull_ok THEN <<>>
                                ELSE _print(q, "Error: Failed to pull")
                                        \o _print(q, "CalledProcessError")),
                  exit |-> <<>>,
                  image |-> e.image \/ pull_ok]

\* write_docker_file: the Dockerfile is opened for writing (truncated), then
\* "requirements.txt" is opened relative to the working directory; if that
\* fails FileNotFoundError leaves the method and the Dockerfile stays empty
write_docker_file(e) ==
    IF e.cwd_requirements
    THEN [raised |-> "", dockerfile |-> "written"]
    ELSE [raised |-> "FileNotFoundError", dockerfile |-> "empty"]

\* build_docker_image: a failed build is caught and reported
build_docker_image(q, build_ok) ==
    [events |-> <<[step |-> "build", ok |-> build_ok]>>,
     log |-> <<"Building docker image with custom requirements...">>
                \o (IF build_ok THEN <<"Docker image ready.">>
                    ELSE <<"Error building Docker image">>),
     out |-> _print(q, "Building docker image with custom requirements...")
                \o (IF build_ok THEN _print(q, "Docker image ready.")
                    ELSE _print(q, "Error building Docker image"))]

\* DockerProcess.run()
DockerRun(pull_ok, build_ok) ==
    /\ d_pc = "idle"
    /\ LET p == pull_docker_image(docker_env, d_quiet, pull_ok)
           w == write_docker_file(docker_env)
           b == build_docker_image(d_quiet, build_ok)
           wr == [step |-> "write_docker_file", ok |-> w.raised = ""]
       IN  IF p.exit # <<>>
           THEN /\ d_pc' = "exited"
                /\ d_exit' = p.exit
                /\ d_events' = p.events
                /\ d_log' = p.log
                /\ d_out' = p.out
                /\ UNCHANGED <<dockerfile, docker_env>>
           ELSE IF ~docker_env.project_requirements
           THEN /\ d_pc' = "returned"
                /\ d_events' = p.events
                /\ d_log' = p.log
                /\ d_out' = p.out
                /\ docker_env' = [docker_env EXCEPT !.image = p.image]
                /\ UNCHANGED <<dockerfile, d_exit>>
           ELSE IF w.raised # ""
           THEN /\ d_pc' = "raised"
                /\ d_events' = p.events \o <<wr>>
                /\ d_log' = p.log
                /\ d_out' = p.out
                /\ dockerfile' = w.dockerfile
                /\ docker_env' = [docker_env EXCEPT !.image = p.image]
                /\ UNCHANGED d_exit
           ELSE /\ d_pc' = "returned"
                /\ d_events' = p.events \o <<wr>> \o b.events
                /\ d_log' = p.log \o b.log
                /\ d_out' = p.out \o b.out
                /\ dockerfile' = w.dockerfile
                /\ docker_env' = [docker_env EXCEPT !.image = p.image \/ build_ok]
                /\ UNCHANGED d_exit
    /\ d_start' = docker_env
    /\ UNCHANGED d_quiet
    /\ UNCHANGED <<runnerVars, fsVars, digestVars, cacheVars, orchVars, ofVars>>

\* a new DockerProcess is constructed for the next regression
DockerAgain(q) ==
    /\ d_pc \in {"returned", "raised"}
    /\ d_pc' = "idle"
    /\ d_quiet' = q
    /\ d_events' = <<>>
    /\ d_log' = <<>>
    /\ d_out' = <<>>
    /\ UNCHANGED <<docker_env, dockerfile, d_exit, d_start>>
    /\ UNCHANGED <<runnerVars, fsVars, digestVars, cacheVars, orchVars, ofVars>>

DockerIdle ==
    /\ d_pc = "idle"
    /\ d_quiet = FALSE
    /\ docker_env = [installed |-> TRUE, image |-> TRUE,
                     project_requirements |-> FALSE, cwd_requirements |-> FALSE]
    /\ d_start = docker_env
    /\ dockerfile = "absent"
    /\ d_events = <<>>
    /\ d_log = <<>>
    /\ d_out = <<>>
    /\ d_exit = <<>>

\* ------------------------------------------------------------------------
\* OpenFrame_env: GPIO pin operations
\* ------------------------------------------------------------------------
\* the pin indices passed to the pin operations
Pins ==
    0..MaxPin

\* the values passed to drive_gpio_range
Values ==
    0..MaxValue

\* the active pin counts: int(OPENFRAME_IO_PADS) of the designs simulated
ActiveCounts ==
    {2, 4}

\* the value of a signal that is not resolved to 0 or 1 (x, z, or a
\* testbench signal nobody has written yet); a resolved value v is <<v>>
Unresolved ==
    <<>>

\* what drives the gpio{N}_monitor signals: the testbench value of a driven
\* pin looped back (an undriven pin floats), or a design that holds the
\* even pins low and the odd pins high
MonitorSources ==
    {"loopback", "alternating"}

\* self.dut._id(f"gpio{i}_monitor", False).value
monitor_value(i) ==
    IF monitor_src = "loopback"
    THEN (IF gpio_en[i] = <<1>> THEN gpio[i] ELSE Unresolved)
    ELSE <<i % 2>>

\* val.is_resolvable
is_resolvable(val) ==
    val # Unresolved

\* int(val) of a resolvable value
int(val) ==
    val[1]

\* 2 ** k
RECURSIVE Pow2(_)
Pow2(k) ==
    IF k = 0 THEN 1 ELSE 2 * Pow2(k - 1)

\* (value >> k) & 1
ShiftRightAnd1(value, k) ==
    (value \div Pow2(k)) % 2

\* a | b on non-negative integers
RECURSIVE BitOr(_, _)
BitOr(a, b) ==
    IF a = 0 THEN b
    ELSE IF b = 0 THEN a
    ELSE (IF a % 2 = 1 \/ b % 2 = 1 THEN 1 ELSE 0) + 2 * BitOr(a \div 2, b \div 2)

\* the signals and the record of one pin operation while it executes
OfState(g, en) ==
    [gpio |-> g, gpio_en |-> en, errors |-> <<>>, writes |-> <<>>,
     reads |-> <<>>]

\* common.drive_hdl(hdl, (0, 0), value): bit 0 of a one-bit signal is set
drive_hdl(old, value) ==
    <<value>>

out_of_range_above(gpio_num, active) ==
    gpio_num > active

\* the range check of every pin operation: gpio_num >= self.active_gpios_num
out_of_range(gpio_num, active) ==
    gpio_num >= active

\* drive_gpio(gpio_num, value)
drive_gpio(st, gpio_num, value) ==
    IF out_of_range(gpio_num, active_gpios_num)
    THEN [st EXCEPT !.errors = Append(@, gpio_num)]
    ELSE [st EXCEPT !.gpio_en[gpio_num] = drive_hdl(@, 1),
                    !.gpio[gpio_num] = drive_hdl(@, value),
                    !.writes = @ \o <<[sig |-> "gpio_en", pin |-> gpio_num, value |-> 1],
                                      [sig |-> "gpio", pin |-> gpio_num, value |-> value]>>]

drive_bit_from_high(value, i, high, low) ==
    ShiftRightAnd1(value, high - i)

\* bit_value = (value >> (i - low)) & 1
drive_bit(value, i, high, low) ==
    ShiftRightAnd1(value, i - low)

\* drive_gpio_range: the loop for i in range(low, high + 1), from pin i on
RECURSIVE drive_gpio_range(_, _, _, _, _)
drive_gpio_range(st, i, high, low, value) ==
    IF i > high THEN st
    ELSE drive_gpio_range(drive_gpio(st, i, drive_bit(value, i, high, low)),
                          i + 1, high, low, value)

\* release_gpio(gpio_num)
release_gpio(st, gpio_num) ==
    IF out_of_range(gpio_num, active_gpios_num)
    THEN [st EXCEPT !.errors = Append(@, gpio_num)]
    ELSE [st EXCEPT !.gpio_en[gpio_num] = drive_hdl(@, 0),
                    !.writes = Append(@, [sig |-> "gpio_en", pin |-> gpio_num,
                                          value |-> 0])]

\* release_gpio_range: the loop for i in range(low, high + 1), from pin i on
RECURSIVE release_gpio_range(_, _, _)
release_gpio_range(st, i, high) ==
    IF i > high THEN st
    ELSE release_gpio_range(release_gpio(st, i), i + 1, high)

\* monitor_gpio(gpio_num): the value returned and the operation record
monitor_gpio(st, gpio_num) ==
    IF out_of_range(gpio_num, active_gpios_num)
    THEN [ret |-> 0, st |-> [st EXCEPT !.errors = Append(@, gpio_num)]]
    ELSE [ret |-> IF is_resolvable(monitor_value(gpio_num))
                  THEN int(monitor_value(gpio_num)) ELSE 0,
          st |-> [st EXCEPT !.reads = Append(@, gpio_num)]]

monitor_accumulate_add_low(value, bit_value, i, low) ==
    BitOr(value, bit_value * Pow2(i))

\* value |= (bit_value << (i - low))
monitor_accumulate(value, bit_value, i, low) ==
    BitOr(value, bit_value * Pow2(i - low))

\* monitor_gpio_range: the loop for i in range(low, high + 1), from pin i on
RECURSIVE monitor_gpio_range(_, _, _, _, _)
monitor_gpio_range(st, value, i, high, low) ==
    IF i > high THEN [ret |-> value, st |-> st]
    ELSE LET m == monitor_gpio(st, i)
         IN  monitor_gpio_range(m.st,
                                monitor_accumulate(value, m.ret, i, low),
                                i + 1, high, low)

NoOperation ==
    [op |-> "none", high |-> 0, low |-> 0, value |-> 0, ret |-> 0,
     errors |-> <<>>, writes |-> <<>>, reads |-> <<>>]

\* a test makes a first pin operation and then a second one
OfStep(pc) ==
    IF pc = "start" THEN "first" ELSE "second"

\* the record an operation that ended in state st leaves
OfRecord(op, high, low, value, ret, st) ==
    [op |-> op, high |-> high, low |-> low, value |-> value, ret |-> ret,
     errors |-> st.errors, writes |-> st.writes, reads |-> st.reads]

DriveGpio(gpio_num, value) ==
    LET st == drive_gpio(OfState(gpio, gpio_en), gpio_num, value)
    IN  /\ of_pc # "second"
        /\ of_pc' = OfStep(of_pc)
        /\ gpio' = st.gpio
        /\ gpio_en' = st.gpio_en
        /\ of_last' = OfRecord("drive_gpio", gpio_num, gpio_num, value, 0, st)
        /\ UNCHANGED <<active_gpios_num, monitor_src>>
        /\ UNCHANGED <<runnerVars, fsVars, digestVars, cacheVars, orchVars, dockerVars,
                       suVars>>

DriveGpioRange(high, low, value) ==
    LET st == drive_gpio_range(OfState(gpio, gpio_en), low, high, low, value)
    IN  /\ of_pc # "second"
        /\ of_pc' = OfStep(of_pc)
        /\ gpio' = st.gpio
        /\ gpio_en' = st.gpio_en
        /\ of_last' = OfRecord("drive_gpio_range", high, low, value, 0, st)
        /\ UNCHANGED <<active_gpios_num, monitor_src>>
        /\ UNCHANGED <<runnerVars, fsVars, digestVars, cacheVars, orchVars, dockerVars,
                       suVars>>

ReleaseGpio(gpio_num) ==
    LET st == release_gpio(OfState(gpio, gpio_en), gpio_num)
    IN  /\ of_pc # "second"
        /\ of_pc' = OfStep(of_pc)
        /\ gpio' = st.gpio
        /\ gpio_en' = st.gpio_en
        /\ of_last' = OfRecord("release_gpio", gpio_num, gpio_num, 0, 0, st)
        /\ UNCHANGED <<active_gpios_num, monitor_src>>
        /\ UNCHANGED <<runnerVars, fsVars, digestVars, cacheVars, orchVars, dockerVars,
                       suVars>>

ReleaseGpioRange(high, low) ==
    LET st == release_gpio_range(OfState(gpio, gpio_en), low, high)
    IN  /\ of_pc # "second"
        /\ of_pc' = OfStep(of_pc)
        /\ gpio' = st.gpio
        /\ gpio_en' = st.gpio_en
        /\ of_last' = OfRecord("release_gpio_range", high, low, 0, 0, st)
        /\ UNCHANGED <<active_gpios_num, monitor_src>>
        /\ UNCHANGED <<runnerVars, fsVars, digestVars, cacheVars, orchVars, dockerVars,
                       suVars>>

MonitorGpio(gpio_num) ==
    LET m == monitor_gpio(OfState(gpio, gpio_en), gpio_num)
    IN  /\ of_pc # "second"
        /\ of_pc' = OfStep(of_pc)
        /\ of_last' = OfRecord("monitor_gpio", gpio_num, gpio_num, 0, m.ret, m.st)
        /\ UNCHANGED <<gpio, gpio_en, active_gpios_num, monitor_src>>
        /\ UNCHANGED <<runnerVars, fsVars, digestVars, cacheVars, orchVars, dockerVars,
                       suVars>>

MonitorGpioRange(high, low) ==
    LET m == monitor_gpio_range(OfState(gpio, gpio_en), 0, low, high, low)
    IN  /\ of_pc # "second"
        /\ of_pc' = OfStep(of_pc)
        /\ of_last' = OfRecord("monitor_gpio_range", high, low, 0, m.ret, m.st)
        /\ UNCHANGED <<gpio, gpio_en, active_gpios_num, monitor_src>>
        /\ UNCHANGED <<runnerVars, fsVars, digestVars, cacheVars, orchVars, dockerVars,
                       suVars>>

\* ------------------------------------------------------------------------
\* OpenFrame_env.start_up: power_up, reset, disable_gpio_drivers
\* ------------------------------------------------------------------------
\* lines 84-97: the rails set_vdd drives with its argument
SupplyRails ==
    {"vddio_tb", "vdda_tb", "vccd_tb", "vdda1_tb", "vdda2_tb", "vccd1_tb",
     "vccd2_tb"}

\* lines 85-97: the rails set_vdd drives with 0
GroundRails ==
    {"vssio_tb", "vssa_tb", "vssd_tb", "vssa1_tb", "vssa2_tb", "vssd1_tb",
     "vssd2_tb"}

\* line 68: await ClockCycles(self.clk, 10) with the supplies at 0
PowerOffCycles ==
    10

\* line 71: await ClockCycles(self.clk, 10) with the supplies at 1
PowerOnCycles ==
    10

\* line 77: await ClockCycles(self.clk, 20) with resetb_tb at 0
ResetLowCycles ==
    20

\* line 79: await ClockCycles(self.clk, 1) after the reset is released
ResetReleaseCycles ==
    1

\* line 62: await ClockCycles(self.clk, 1) after the enables are cleared
DisableCycles ==
    1

set_vdd_all_rails(value) ==
    [r \in SupplyRails \cup GroundRails |-> <<value>>]

\* lines 82-97: set_vdd(value)
set_vdd(value) ==
    [r \in SupplyRails \cup GroundRails |->
        IF r \in SupplyRails THEN <<value>> ELSE <<0>>]

\* lines 60-61: for i in range(self.active_gpios_num): gpio{i}_en = 0
disable_gpio_drivers(en, active) ==
    [i \in Pins |-> IF i < active THEN drive_hdl(en[i], 0) ELSE en[i]]

\* one entry of the record of what start_up did
SuEntry(ev) ==
    [ev |-> ev, at |-> clk_edges]

\* lines 52-54, 64-68: start_up is called; power_up logs, drives the rails
\* with 0 and waits
StartUp ==
    /\ su_pc = "idle"
    /\ power' = set_vdd(0)
    /\ su_log' = su_log \o <<SuEntry("info: start powering up"), SuEntry("set_vdd(0)")>>
    /\ wait_left' = PowerOffCycles
    /\ su_pc' = "power_off"
    /\ UNCHANGED <<clk_edges, resetb_tb>>
    /\ UNCHANGED <<active_gpios_num, gpio, gpio_en, monitor_src, of_last, of_pc>>
    /\ UNCHANGED <<runnerVars, fsVars, digestVars, cacheVars, orchVars, dockerVars>>

\* a rising edge of clock_tb while the coroutine waits in ClockCycles
ClockEdge ==
    /\ wait_left > 0
    /\ wait_left' = wait_left - 1
    /\ clk_edges' = clk_edges + 1
    /\ UNCHANGED <<su_pc, power, resetb_tb, su_log>>
    /\ UNCHANGED <<active_gpios_num, gpio, gpio_en, monitor_src, of_last, of_pc>>
    /\ UNCHANGED <<runnerVars, fsVars, digestVars, cacheVars, orchVars, dockerVars>>

\* lines 69-71: the first wait is over; power_up logs, drives the supplies
\* with 1 and waits
PowerUpConnect ==
    /\ su_pc = "power_off"
    /\ wait_left = 0
    /\ power' = set_vdd(1)
    /\ su_log' = su_log \o <<SuEntry("info: power up -> connect vdd"), SuEntry("set_vdd(1)")>>
    /\ wait_left' = PowerOnCycles
    /\ su_pc' = "power_on"
    /\ UNCHANGED <<clk_edges, resetb_tb>>
    /\ UNCHANGED <<active_gpios_num, gpio, gpio_en, monitor_src, of_last, of_pc>>
    /\ UNCHANGED <<runnerVars, fsVars, digestVars, cacheVars, orchVars, dockerVars>>

\* lines 55, 73-77: power_up returned; reset logs, drives resetb_tb with 0
\* and waits
ResetAssert ==
    /\ su_pc = "power_on"
    /\ wait_left = 0
    /\ resetb_tb' = <<0>>
    /\ su_log' = su_log \o <<SuEntry("info: start resetting"), SuEntry("resetb_tb = 0")>>
    /\ wait_left' = ResetLowCycles
    /\ su_pc' = "reset_low"
    /\ UNCHANGED <<clk_edges, power>>
    /\ UNCHANGED <<active_gpios_num, gpio, gpio_en, monitor_src, of_last, of_pc>>
    /\ UNCHANGED <<runnerVars, fsVars, digestVars, cacheVars, orchVars, dockerVars>>

\* lines 78-79: reset drives resetb_tb with 1 and waits
ResetRelease ==
    /\ su_pc = "reset_low"
    /\ wait_left = 0
    /\ resetb_tb' = <<1>>
    /\ su_log' = Append(su_log, SuEntry("resetb_tb = 1"))
    /\ wait_left' = ResetReleaseCycles
    /\ su_pc' = "reset_high"
    /\ UNCHANGED <<clk_edges, power>>
    /\ UNCHANGED <<active_gpios_num, gpio, gpio_en, monitor_src, of_last, of_pc>>
    /\ UNCHANGED <<runnerVars, fsVars, digestVars, cacheVars, orchVars, dockerVars>>

\* lines 80, 56, 58-62: reset logs and returns; disable_gpio_drivers clears
\* the enables of the active pins and waits
DisableGpioDrivers ==
    /\ su_pc = "reset_high"
    /\ wait_left = 0
    /\ gpio_en' = disable_gpio_drivers(gpio_en, active_gpios_num)
    /\ su_log' = su_log \o <<SuEntry("info: finish resetting"), SuEntry("gpio_en = 0")>>
    /\ wait_left' = DisableCycles
    /\ su_pc' = "disabling"
    /\ UNCHANGED <<clk_edges, power, resetb_tb>>
    /\ UNCHANGED <<active_gpios_num, gpio, monitor_src, of_last, of_pc>>
    /\ UNCHANGED <<runnerVars, fsVars, digestVars, cacheVars, orchVars, dockerVars>>

\* line 56: disable_gpio_drivers returned and so does start_up
StartUpReturn ==
    /\ su_pc = "disabling"
    /\ wait_left = 0
    /\ su_log' = Append(su_log, SuEntry("return"))
    /\ su_pc' = "done"
    /\ UNCHANGED <<wait_left, clk_edges, power, resetb_tb>>
    /\ UNCHANGED <<active_gpios_num, gpio, gpio_en, monitor_src, of_last, of_pc>>
    /\ UNCHANGED <<runnerVars, fsVars, digestVars, cacheVars, orchVars, dockerVars>>

\* before start_up is called: nothing of the testbench drives the rails or
\* the reset
StartUpIdle ==
    /\ su_pc = "idle"
    /\ wait_left = 0
    /\ clk_edges = 0
    /\ power = [r \in SupplyRails \cup GroundRails |-> Unresolved]
    /\ resetb_tb = Unresolved
    /\ su_log = <<>>

OpenFrameIdle ==
    /\ active_gpios_num = 4
    /\ gpio = [i \in Pins |-> Unresolved]
    /\ gpio_en = [i \in Pins |-> Unresolved]
    /\ monitor_src = "loopback"
    /\ of_last = NoOperation
    /\ of_pc = "start"
    /\ StartUpIdle
\* ------------------------------------------------------------------------
\* Specification of calculate_netlist_hash as a function of its file list
\* ------------------------------------------------------------------------
\* l and m hold the same paths the same number of times
IsPermutation(l, m) ==
    /\ Len(l) = Len(m)
    /\ \A p \in Paths :
        Cardinality({i \in 1..Len(l) : l[i] = p})
            = Cardinality({i \in 1..Len(m) : m[i] = p})

\* the lists the second call is made with: the reorderings of the first
\* list and its deduplicated form
Variants(l) ==
    {m \in Netlists : IsPermutation(l, m) \/ m = Dedup(l)}

DigestIdle ==
    /\ netlist = <<>>
    /\ h_calls = <<>>

\* a call of the static method on the files as they are
Calculate(netlist_arg) ==
    /\ Len(h_calls) < 2
    /\ h_calls = <<>> => netlist_arg = netlist
    /\ h_calls' = Append(h_calls,
            [arg |-> netlist_arg] @@ calculate_netlist_hash(netlist_arg))
    /\ UNCHANGED <<netlist, files, hash_logs>>
    /\ UNCHANGED <<runnerVars, cacheVars, orchVars, dockerVars, ofVars>>

\* ------------------------------------------------------------------------
\* Specification of the hash cache: is_same_hash and write_hash calls with
\* file edits in between
\* ------------------------------------------------------------------------
\* the netlists of the tests
TestNetlists ==
    {<<PathB, PathA>>, <<PathSp>>}

NoCall ==
    [op |-> "none", lg |-> "h1", nl |-> <<>>, ret |-> FALSE, new |-> <<>>,
     err |-> FALSE, old_missing |-> FALSE, repeat |-> FALSE]

CacheIdle ==
    /\ last = NoCall
    /\ stamp = [lg \in HashLogs |-> <<>>]

\* self.is_same_hash(netlist) of a test whose hash log is lg
IsSameHash(lg, netlist_arg) ==
    /\ hash_logs' = AfterWriteHash(lg, netlist_arg)
    /\ last' = [op |-> "is_same_hash", lg |-> lg, nl |-> netlist_arg,
                ret |-> is_same_hash(hash_logs[lg], netlist_arg),
                new |-> calculate_netlist_hash(netlist_arg).text,
                err |-> calculate_netlist_hash(netlist_arg).err,
                old_missing |-> ~hash_logs[lg].exists,
                repeat |-> stamp[lg] = <<netlist_arg>>]
    /\ stamp' = [stamp EXCEPT ![lg] = <<netlist_arg>>]
    /\ UNCHANGED files
    /\ UNCHANGED <<runnerVars, digestVars, orchVars, dockerVars, ofVars>>

\* self.write_hash(netlist) of a test whose hash log is lg
WriteHash(lg, netlist_arg) ==
    /\ hash_logs' = AfterWriteHash(lg, netlist_arg)
    /\ last' = [NoCall EXCEPT !.op = "write_hash", !.lg = lg, !.nl = netlist_arg,
                              !.new = calculate_netlist_hash(netlist_arg).text,
                              !.err = calculate_netlist_hash(netlist_arg).err]
    /\ stamp' = [stamp EXCEPT ![lg] = <<netlist_arg>>]
    /\ UNCHANGED files
    /\ UNCHANGED <<runnerVars, digestVars, orchVars, dockerVars, ofVars>>

\* the user edits, removes, restores or protects a netlist file
EditFile(p, st) ==
    /\ files[p] # st
    /\ files' = [files EXCEPT ![p] = st]
    /\ last' = NoCall
    /\ stamp' = [lg \in HashLogs |-> <<>>]
    /\ UNCHANGED hash_logs
    /\ UNCHANGED <<runnerVars, digestVars, orchVars, dockerVars, ofVars>>

\* the user removes a hash log (cleans the simulation directory)
RemoveHashLog(lg) ==
    /\ hash_logs[lg].exists
    /\ hash_logs' = [hash_logs EXCEPT ![lg] = NoFile]
    /\ last' = NoCall
    /\ stamp' = [stamp EXCEPT ![lg] = <<>>]
    /\ UNCHANGED files
    /\ UNCHANGED <<runnerVars, digestVars, orchVars, dockerVars, ofVars>>

\* ------------------------------------------------------------------------
\* Specifications
\* ------------------------------------------------------------------------
RunnerIdle ==
    /\ r_pc = "idle"
    /\ quiet = TRUE
    /\ log_file = "None"
    /\ file_text = <<>>
    /\ buffered_line = None
    /\ buffered_src = 0
    /\ console = <<>>
    /\ history = <<>>
    /\ console_src = <<>>
    /\ log_src = {}
    /\ returncode = NoCode
    /\ process = "unbound"
    /\ child = NoChild
    /\ logger_log = <<>>
    /\ propagated = ""

FsIdle ==
    /\ files = [p \in Paths |-> Readable(<<1>>)]
    /\ hash_logs = [lg \in HashLogs |-> NoFile]

vars ==
    <<runnerVars, fsVars, digestVars, cacheVars, orchVars, dockerVars, ofVars>>

InitRunner ==
    /\ RunnerStart
    /\ DockerIdle
    /\ OpenFrameIdle
    /\ OrchIdle
    /\ FsIdle
    /\ DigestIdle
    /\ CacheIdle

NextRunner ==
    \/ \E q \in BOOLEAN : \E withFile \in BOOLEAN : Spawn(q, withFile)
    \/ \E q \in BOOLEAN : \E withFile \in BOOLEAN :
            \E exc \in Exceptions : SpawnFails(q, withFile, exc)
    \/ ChildWrite
    \/ ChildClose
    \/ \E code \in ExitCodes : ChildExit(code)
    \/ \E out \in RawLines : \E more \in BOOLEAN : ReadLine(out, more)
    \/ Finish
    \/ \E exc \in Exceptions : ReadFails(exc)

SpecRunner ==
    InitRunner /\ [][NextRunner]_vars

InitDigest ==
    /\ files \in [Paths -> FileStates]
    /\ hash_logs = [lg \in HashLogs |-> NoFile]
    /\ netlist \in Netlists
    /\ h_calls = <<>>
    /\ RunnerIdle
    /\ CacheIdle
    /\ OrchIdle
    /\ DockerIdle
    /\ OpenFrameIdle

NextDigest ==
    \E netlist_arg \in Variants(netlist) : Calculate(netlist_arg)

SpecDigest ==
    InitDigest /\ [][NextDigest]_vars

InitCache ==
    /\ files \in [Paths -> FileStates]
    /\ hash_logs = [lg \in HashLogs |-> NoFile]
    /\ RunnerIdle
    /\ DigestIdle
    /\ CacheIdle
    /\ OrchIdle
    /\ DockerIdle
    /\ OpenFrameIdle

NextCache ==
    \/ \E lg \in HashLogs : \E nl \in TestNetlists : IsSameHash(lg, nl)
    \/ \E lg \in HashLogs : \E nl \in TestNetlists : WriteHash(lg, nl)
    \/ \E p \in Paths : \E st \in FileStates : EditFile(p, st)
    \/ \E lg \in HashLogs : RemoveHashLog(lg)

SpecCache ==
    InitCache /\ [][NextCache]_vars

\* DockerProcess.run() on any machine, in quiet mode or not
InitDocker ==
    /\ d_pc = "idle"
    /\ d_quiet \in BOOLEAN
    /\ docker_env \in DockerEnvs
    /\ d_start = docker_env
    /\ dockerfile \in DockerfileStates
    /\ d_events = <<>>
    /\ d_log = <<>>
    /\ d_out = <<>>
    /\ d_exit = <<>>
    /\ RunnerIdle
    /\ FsIdle
    /\ DigestIdle
    /\ CacheIdle
    /\ OrchIdle
    /\ OpenFrameIdle

NextDocker ==
    \/ \E pull_ok \in BOOLEAN : \E build_ok \in BOOLEAN : DockerRun(pull_ok, build_ok)
    \/ \E q \in BOOLEAN : DockerAgain(q)

SpecDocker ==
    InitDocker /\ [][NextDocker]_vars

\* pin operations of a test on a design with any active pin count
InitOpenFrame ==
    /\ active_gpios_num \in ActiveCounts
    /\ gpio = [i \in Pins |-> Unresolved]
    /\ gpio_en = [i \in Pins |-> Unresolved]
    /\ monitor_src \in MonitorSources
    /\ of_last = NoOperation
    /\ of_pc = "start"
    /\ StartUpIdle
    /\ RunnerIdle
    /\ FsIdle
    /\ DigestIdle
    /\ CacheIdle
    /\ OrchIdle
    /\ DockerIdle

NextOpenFrame ==
    \/ \E n \in Pins : \E v \in {0, 1} : DriveGpio(n, v)
    \/ \E high \in Pins : \E low \in Pins : \E v \in Values :
            DriveGpioRange(high, low, v)
    \/ \E n \in Pins : ReleaseGpio(n)
    \/ \E high \in Pins : \E low \in Pins : ReleaseGpioRange(high, low)
    \/ \E n \in Pins : MonitorGpio(n)
    \/ \E high \in Pins : \E low \in Pins : MonitorGpioRange(high, low)

SpecOpenFrame ==
    InitOpenFrame /\ [][NextOpenFrame]_vars

\* a process started with any command line; binaries and hash logs are
\* absent (a fresh simulation directory), the netlist files are readable
Init ==
    /\ files = [p \in Paths |-> Readable(<<1>>)]
    /\ hash_logs = [lg \in HashLogs |-> NoFile]
    /\ COMPILE_LOCK = {}
    /\ binaries = {}
    /\ built_from = [a \in Artifacts |-> NoBuild]
    /\ args \in {a \in ArgSets : a.iverilog # a.vcs}
    /\ inv = NoInvocation
    /\ RunnerIdle
    /\ DigestIdle
    /\ CacheIdle
    /\ DockerIdle
    /\ OpenFrameIdle

Next ==
    \/ \E t \in Tests : \E ok \in BOOLEAN :
            \E hex_gen_state \in {h \in HexStates : args.openframe => h = 0} :
                run_test(t, hex_gen_state, ok)
    \/ \E p \in {PathSp} :
            \E st \in {Readable(<<1>>), Readable(<<2, 1>>)} : EditNetlist(p, st)
    \/ \E a \in {a \in ArgSets : a.iverilog # a.vcs /\ a.openframe = args.openframe} :
            Restart(a)

Spec ==
    Init /\ [][Next]_vars


\* start_up on a design with any active pin count, the pin enables left in
\* any state by the test so far
InitStartUp ==
    /\ active_gpios_num \in ActiveCounts
    /\ gpio = [i \in Pins |-> Unresolved]
    /\ gpio_en \in [Pins -> {Unresolved, <<1>>}]
    /\ monitor_src = "loopback"
    /\ of_last = NoOperation
    /\ of_pc = "start"
    /\ StartUpIdle
    /\ RunnerIdle
    /\ FsIdle
    /\ DigestIdle
    /\ CacheIdle
    /\ OrchIdle
    /\ DockerIdle

NextStartUp ==
    \/ StartUp
    \/ ClockEdge
    \/ PowerUpConnect
    \/ ResetAssert
    \/ ResetRelease
    \/ DisableGpioDrivers
    \/ StartUpReturn

SpecStartUp ==
    InitStartUp /\ [][NextStartUp]_vars
\* ------------------------------------------------------------------------
\* Properties of the command runner
\* ------------------------------------------------------------------------
\* the cleaned text of the i-th line read
Cl(i) ==
    history[i].clean

\* the i-th line read is a candidate for the console: non-empty, not noise
Shown(i) ==
    Cl(i) # <<>> /\ ~history[i].noise

\* the indices of the lines read that were printed
Printed ==
    {console_src[k] : k \in 1..Len(console_src)}

StrictPrefix(x, y) ==
    Len(x) < Len(y) /\ StartsWith(y, x)

\* x is a prefix of y and more than two characters shorter
Truncation(x, y) ==
    StartsWith(y, x) /\ Len(y) > Len(x) + 2

\* lines i < j are consecutive among the non-noise lines
Consecutive(i, j) ==
    /\ i < j
    /\ Shown(i)
    /\ Shown(j)
    /\ \A k \in (i + 1)..(j - 1) : ~Shown(k)

ConsoleRunDone ==
    r_pc = "returned" /\ ~quiet

\* C3 (as stated): of two consecutive non-noise lines where one is a strict
\* prefix of the other, only the longer is printed, the shorter never.
C3_AnyStrictPrefixDeduplicated ==
    ConsoleRunDone =>
        \A i \in 1..Len(history) : \A j \in 1..Len(history) :
            Consecutive(i, j) =>
                /\ StrictPrefix(Cl(i), Cl(j)) => (j \in Printed /\ i \notin Printed)
                /\ StrictPrefix(Cl(j), Cl(i)) => (i \in Printed /\ j \notin Printed)

\* C3 (amended): of two consecutive non-noise lines where one is a prefix of
\* the other and more than two characters shorter, the shorter is not
\* printed, and the longer is printed unless it is itself such a truncation
\* of another non-noise line of the run.
C3_TruncationDeduplicated ==
    ConsoleRunDone =>
        \A i \in 1..Len(history) : \A j \in 1..Len(history) :
            Consecutive(i, j) =>
                /\ Truncation(Cl(i), Cl(j)) =>
                    /\ i \notin Printed
                    /\ \/ j \in Printed
                       \/ \E k \in 1..Len(history) :
                            Shown(k) /\ Truncation(Cl(j), Cl(k))
                /\ Truncation(Cl(j), Cl(i)) =>
                    /\ j \notin Printed
                    /\ \/ i \in Printed
                       \/ \E k \in 1..Len(history) :
                            Shown(k) /\ Truncation(Cl(i), Cl(k))

\* C3 witness: "Compiling" then "Compiling foo.v" arrived and only the
\* longer line is on the console.
C3_Witness ==
    /\ ConsoleRunDone
    /\ Len(history) = 2
    /\ history[1].raw = LineCompiling
    /\ history[2].raw = LineCompilingFoo
    /\ console = <<clean_line(LineCompilingFoo)>>

\* C4: every non-noise line that is not a strict prefix of another non-noise
\* line of the run is printed, and the console shows the printed lines in
\* the order in which they arrived.
C4_UnrelatedLinesPrintedInOrder ==
    ConsoleRunDone =>
        /\ \A i \in 1..Len(history) :
            (Shown(i) /\ \A j \in 1..Len(history) :
                            Shown(j) => ~StrictPrefix(Cl(i), Cl(j)))
                => i \in Printed
        /\ Len(console) = Len(console_src)
        /\ \A k \in 1..Len(console_src) :
            /\ console_src[k] \in 1..Len(history)
            /\ console[k] = Cl(console_src[k])
            /\ k > 1 => console_src[k - 1] < console_src[k]

\* C4 witness: "Compiling" then "Linking" arrived and both are on the
\* console, in that order.
C4_Witness ==
    /\ ConsoleRunDone
    /\ Len(history) = 2
    /\ history[1].raw = LineCompiling
    /\ history[2].raw = LineLinking
    /\ console = <<clean_line(LineCompiling), clean_line(LineLinking)>>

\* C5 (as stated): with a log file, every line read that matches a noise
\* pattern (empty lines included) is in the log file, ANSI-stripped, and is
\* not on the console.
C5_NoiseLoggedNotPrinted ==
    log_file # "None" =>
        \A i \in 1..Len(history) :
            history[i].noise =>
                /\ i \in log_src
                /\ \E k \in 1..Len(file_text) : file_text[k] = Cl(i)
                /\ i \notin Printed


\* C11 (as stated): run_command_write_to_file never lets an exception reach
\* its caller: whatever is raised while spawning the child or reading its
\* output is logged (a warning for an interrupt, an error otherwise), a
\* running child is asked to terminate, and the function returns.
C11_ExceptionNeverPropagates ==
    /\ propagated = ""
    /\ r_pc # "raised"
    /\ logger_log # <<>> =>
        /\ r_pc = "handled"
        /\ logger_log[Len(logger_log)].level \in {"warning", "error"}
        /\ (process = "bound" /\ child.status = NoCode) => child.signalled

\* C12: when the function returns on the normal path the pipe is closed by
\* every writer and holds no unread output, the child has exited, and the
\* value returned is the exit code of the child, never None.
C12_ReturnsAfterDrainWithExitCode ==
    r_pc = "returned" =>
        /\ child.out = "closed"
        /\ ~child.unread
        /\ child.status # NoCode
        /\ returncode = child.status
        /\ returncode # NoCode
        /\ returncode[1] \in ExitCodes
        /\ propagated = ""

\* C12 witness: the child wrote two lines and failed; both lines were read
\* before the function returned exit code 1.
C12_Witness ==
    /\ r_pc = "returned"
    /\ Len(history) = 2
    /\ child.status = <<1>>
    /\ returncode = <<1>>

\* the i-th line read is on the console, or a longer line that starts with
\* it is on the console or in the buffer
Covered(i) ==
    \/ i \in Printed
    \/ \E j \in 1..Len(history) :
          /\ j \in Printed \/ j = buffered_src
          /\ Shown(j)
          /\ StrictPrefix(Cl(i), Cl(j))

\* the lines read that are withheld from the console
Withheld ==
    {i \in 1..Len(history) : Shown(i) /\ ~Covered(i)}

\* the state of C24: one buffer, flushed on the normal return
OneLineWithheld ==
    (r_pc # "idle" /\ ~quiet) =>
        /\ buffered_line = None <=> buffered_src = 0
        /\ buffered_src # 0 =>
              /\ buffered_src \in 1..Len(history)
              /\ Shown(buffered_src)
              /\ buffered_line = Cl(buffered_src)
              /\ buffered_src \notin Printed
        /\ Withheld \subseteq {buffered_src}
        /\ r_pc = "returned" =>
              /\ buffered_line = None
              /\ Withheld = {}

\* the step of C24: the normal return prints the buffered line last
FlushOnReturnStep ==
    (r_pc = "reading" /\ r_pc' = "returned" /\ buffered_line # None) =>
        console' = Append(console, buffered_line)

\* C24: with console output enabled at most one of the non-noise, non-empty
\* lines read is withheld at any time, namely the buffered one; the normal
\* return prints it, so that then every such line is on the console or is a
\* strict prefix of a line on the console.
C24_OneLineBufferedAndFlushed ==
    []OneLineWithheld /\ [][FlushOnReturnStep]_vars

\* C24 witness: "Compiling", then the shorter "Comp", then "Compiling foo.v"
\* arrived; the first two were dropped in turn and the normal return printed
\* the third from the buffer.
C24_Witness ==
    /\ r_pc = "returned"
    /\ ~quiet
    /\ Len(history) = 3
    /\ history[1].raw = LineCompiling
    /\ history[2].raw = LineComp
    /\ history[3].raw = LineCompilingFoo
    /\ console = <<clean_line(LineCompilingFoo)>>
    /\ Printed = {3}
\* ------------------------------------------------------------------------
\* Properties of calculate_netlist_hash
\* ------------------------------------------------------------------------
\* total length of the files of the list l, every occurrence counted
RECURSIVE TotalLength(_)
TotalLength(l) ==
    IF l = <<>> THEN 0 ELSE Len(files[Head(l)].data) + TotalLength(Tail(l))

\* the paths that occur more than once in l
Repeated(l) ==
    {p \in Paths : Cardinality({i \in 1..Len(l) : l[i] = p}) > 1}

\* C6: two calls whose file lists are reorderings of each other return the
\* same text (the same digest, or the same error text).
C6_OrderIndependent ==
    \A i \in 1..Len(h_calls) : \A j \in 1..Len(h_calls) :
        IsPermutation(h_calls[i].arg, h_calls[j].arg)
            => h_calls[i].text = h_calls[j].text

\* C6 witness: two readable files with different contents were hashed in
\* both orders, with one digest.
C6_Witness ==
    /\ Len(h_calls) = 2
    /\ h_calls[1].arg = <<PathB, PathA>>
    /\ h_calls[2].arg = <<PathA, PathB>>
    /\ files[PathA] = Readable(<<1>>)
    /\ files[PathB] = Readable(<<2, 1>>)
    /\ ~h_calls[1].err
    /\ h_calls[1].text = h_calls[2].text

\* C7 (as stated): a list with a repeated path has the digest of the list
\* with that path occurring once.
C7_DigestOfDeduplicatedList ==
    \A i \in 1..Len(h_calls) : \A j \in 1..Len(h_calls) :
        h_calls[j].arg = Dedup(h_calls[i].arg)
            => h_calls[i].text = h_calls[j].text

\* C7 (amended): the file list is sorted but not deduplicated; a path is
\* hashed once per occurrence, so the bytes hashed are as many as the files
\* of the list hold with every occurrence counted, and a list with a
\* repeated path has the digest of the deduplicated list when every
\* repeated file is empty, and is hashed from more bytes when one is not.
C7_HashedOncePerOccurrence ==
    \A i \in 1..Len(h_calls) :
        ~h_calls[i].err =>
            /\ Len(h_calls[i].fed) = TotalLength(h_calls[i].arg)
            /\ \A j \in 1..Len(h_calls) :
                h_calls[j].arg = Dedup(h_calls[i].arg) =>
                    IF \A p \in Repeated(h_calls[i].arg) : files[p].data = <<>>
                    THEN h_calls[i].text = h_calls[j].text
                    ELSE Len(h_calls[i].fed) > Len(h_calls[j].fed)

\* C7 witness: a list naming a non-empty readable file twice was hashed and
\* so was the list naming it once.
C7_Witness ==
    /\ Len(h_calls) = 2
    /\ h_calls[1].arg = <<PathA, PathA>>
    /\ h_calls[2].arg = <<PathA>>
    /\ files[PathA] = Readable(<<2, 1>>)
    /\ h_calls[1].fed = <<2, 1, 2, 1>>

\* ------------------------------------------------------------------------
\* Properties of is_same_hash / write_hash
\* ------------------------------------------------------------------------
\* C8: an is_same_hash call made while the hash log does not exist returns
\* False, whether or not hashing fails.
C8_NoHashLogReportsChanged ==
    (last.op = "is_same_hash" /\ last.old_missing) => ~last.ret

\* C8 witness: is_same_hash was called without a hash log on a netlist
\* whose hashing failed.
C8_Witness ==
    /\ last.op = "is_same_hash"
    /\ last.old_missing
    /\ last.err
    /\ ~last.ret

\* the hash log holds exactly the value computed by the last call
HashLogHoldsFreshValue ==
    last.op = "is_same_hash" =>
        /\ hash_logs[last.lg] = [exists |-> TRUE, text |-> last.new]
        /\ last.new = calculate_netlist_hash(last.nl).text

C10_HashErrorIsCacheMiss ==
    (last.op = "is_same_hash" /\ last.err) => ~last.ret

\* ------------------------------------------------------------------------
\* Properties of runTest_iverilog / runTest_vcs
\* ------------------------------------------------------------------------
\* how many times the last invocation ran the compile step
Compiles ==
    Cardinality({i \in 1..Len(inv.events) : inv.events[i] = "compile"})

C2_CompileDecision ==
    (inv.kind # "none" /\ ~inv.raised) =>
        LET must == \/ ~inv.binary_before
                    \/ inv.compile_flag
                    \/ ~inv.same /\ ~inv.locked_before
        IN  Compiles = IF must THEN 1 ELSE 0

\* C2 witness: the third rule fired (binary present, no compile flag, hash
\* changed, artifact not locked) and the compile step ran once.
C2_Witness ==
    /\ inv.kind # "none"
    /\ inv.binary_before
    /\ ~inv.compile_flag
    /\ ~inv.same
    /\ ~inv.locked_before
    /\ Compiles = 1


\* the last invocation made the call named e
Called(e) ==
    \E i \in 1..Len(inv.events) : inv.events[i] = e

\* the test the last invocation was made for
TestOf(name) ==
    CHOOSE t \in Tests : t.name = name

\* C15: under the compile-only flag an invocation launches no simulation
\* run and does not call end_of_test, while an invocation that reaches the
\* compile decision still takes it by the usual rule and still adds its
\* artifact to the compile lock.
C15_CompileOnlySkipsRunOnly ==
    (inv.kind # "none" /\ args.compile_only) =>
        /\ ~Called("run")
        /\ ~Called("end_of_test")
        /\ ~inv.raised =>
              /\ Called("lock_add")
              /\ inv.artifact \in COMPILE_LOCK
              /\ Compiles = IF \/ ~inv.binary_before
                               \/ inv.compile_flag
                               \/ ~inv.same /\ ~inv.locked_before
                            THEN 1 ELSE 0

\* C15 witness: a compile-only invocation compiled its artifact and locked
\* it without running the simulation.
C15_Witness ==
    /\ inv.kind \in {"iverilog", "vcs"}
    /\ args.compile_only
    /\ ~inv.raised
    /\ Compiles = 1
    /\ Called("lock_add")
    /\ inv.artifact \in COMPILE_LOCK
    /\ ~Called("run")

\* the calls of the simulator track
TrackCalls ==
    {"compile", "write_hash", "is_same_hash", "lock_add", "run"}

\* the state of C16: what the last invocation recorded
HexGate ==
    inv.kind # "none" =>
        /\ args.openframe =>
              /\ ~Called("hex_generate")
              /\ inv.hex = NoCode
        /\ ~args.openframe =>
              /\ inv.events[1] = "hex_generate"
              /\ (\E e \in TrackCalls : Called(e)) => inv.hex = <<0>>
              /\ inv.hex # <<0>> =>
                    /\ inv.raised
                    /\ inv.error = HexError(TestOf(inv.test))
                    /\ inv.events = <<"hex_generate">>

\* the step of C16: a failed hex generation changes nothing
HexFailureStep ==
    (inv'.kind # "none" /\ ~args'.openframe /\ inv'.hex # <<0>>) =>
        UNCHANGED <<COMPILE_LOCK, binaries, hash_logs>>

\* C16: for a target that is not OpenFrame every invocation starts with the
\* hex generation and reaches the simulator track only when the command
\* exited with 0; any other exit code raises the error naming the hex log
\* and nothing is compiled, run, locked or ended. For an OpenFrame target
\* the hex generation is never called.
C16_HexGeneratedBeforeTrack ==
    []HexGate /\ [][HexFailureStep]_vars

\* C16 witness: the hex generation of a target that is not OpenFrame exited
\* with a code other than 0 and the invocation raised.
C16_Witness ==
    /\ inv.kind = "hex_generate"
    /\ ~args.openframe
    /\ inv.hex = <<1>>
    /\ inv.raised
    /\ inv.error[3] = TestOf(inv.test).hex_log

\* the state of C17: what the last invocation recorded
SdfRefused ==
    (inv.kind = "iverilog" /\ TestOf(inv.test).sim = "GL_SDF") =>
        /\ inv.raised
        /\ inv.error = SdfError(TestOf(inv.test))
        /\ \A e \in TrackCalls \cup {"end_of_test"} : ~Called(e)

\* the step of C17: the refused invocation changes nothing
SdfRefusedStep ==
    (inv'.kind = "iverilog" /\ TestOf(inv'.test).sim = "GL_SDF") =>
        UNCHANGED <<COMPILE_LOCK, binaries, hash_logs>>

\* C17: the Icarus track on a GL_SDF test raises the error naming the test
\* and does nothing else: no compile, no hash log write, no addition to the
\* compile lock, no simulation run.
C17_IcarusRefusesSdf ==
    []SdfRefused /\ [][SdfRefusedStep]_vars

\* C17 witness: the Icarus track was entered for the GL_SDF test and raised
\* the error naming it.
C17_Witness ==
    /\ inv.kind = "iverilog"
    /\ TestOf(inv.test).sim = "GL_SDF"
    /\ inv.raised
    /\ inv.error[3] = inv.test

\* the hash of the netlist of the last invocation's test, files as they are
CurrentHash ==
    calculate_netlist_hash(TestOf(inv.test).netlist).text

\* the last invocation skipped the compile of an artifact that was not
\* locked because the stored hash equalled the netlist hash
SkippedOnEqualHash ==
    /\ inv.kind \in {"iverilog", "vcs"}
    /\ ~inv.raised
    /\ Compiles = 0
    /\ ~inv.locked_before
    /\ inv.same

\* C22: whenever the compile of an artifact that is not locked is skipped
\* because the stored hash equals the netlist hash, the existing binary was
\* made by a compile of a netlist with that hash, whatever invocations,
\* netlist edits and restarts came before.
C22_SkippedBinaryBuiltFromSameHash ==
    SkippedOnEqualHash =>
        /\ inv.artifact \in binaries
        /\ built_from[inv.artifact] = CurrentHash

\* the state of C23: what the invocation did after a failed compile
FailedCompileIgnored ==
    (inv.kind \in {"iverilog", "vcs"} /\ inv.compile_exit \notin {NoCode, <<0>>}) =>
        /\ ~inv.raised
        /\ Called("lock_add")
        /\ inv.artifact \in COMPILE_LOCK
        /\ hash_logs[TestOf(inv.test).hash_log] =
              [exists |-> TRUE, text |-> CurrentHash]
        /\ Called("run") <=> ~args.compile_only

\* the step of C23: within a process the compile lock only grows
LockGrowsStep ==
    \/ COMPILE_LOCK \subseteq COMPILE_LOCK'
    \/ \E a \in ArgSets : Restart(a)

\* C23: after a compile command that exits with a code other than 0 the
\* invocation goes on as after a successful one: the artifact is added to
\* the compile lock, which only grows until the process ends, the hash log
\* holds the netlist hash, and the simulation runs unless compile-only is
\* set.
C23_CompileExitCodeIgnored ==
    []FailedCompileIgnored /\ [][LockGrowsStep]_vars

\* C23 witness: the compile command failed, no binary exists, and yet the
\* artifact is locked, the hash log is written and the simulation ran.
C23_Witness ==
    /\ inv.kind \in {"iverilog", "vcs"}
    /\ inv.compile_exit = <<1>>
    /\ inv.artifact \notin binaries
    /\ inv.artifact \in COMPILE_LOCK
    /\ hash_logs[TestOf(inv.test).hash_log].text = CurrentHash
    /\ Called("run")

\* ------------------------------------------------------------------------
\* Properties of DockerProcess.run
\* ------------------------------------------------------------------------
\* the positions in d_events of the steps named step
StepsAt(step) ==
    {k \in 1..Len(d_events) : d_events[k].step = step}

\* msg was given to _print
DockerLogged(msg) ==
    \E k \in 1..Len(d_log) : d_log[k] = msg

\* msg reached the console
DockerPrinted(msg) ==
    \E k \in 1..Len(d_out) : d_out[k] = msg

\* a pull was run and failed
PullFailed ==
    \E k \in 1..Len(d_events) :
        d_events[k].step \in {"pull", "pull -q"} /\ ~d_events[k].ok

\* a build was run and failed
BuildFailed ==
    \E k \in 1..Len(d_events) : d_events[k].step = "build" /\ ~d_events[k].ok

\* C13 (as stated): where docker is installed, run() always pulls first, a
\* full pull when the inspect failed and a quiet pull when it succeeded, and
\* it writes the Dockerfile and then builds the image, after the pull, if
\* and only if the project's requirements file exists.
C13_PullThenRebuildIffRequirements ==
    (d_pc # "idle" /\ d_start.installed) =>
        /\ Len(d_events) >= 2
        /\ d_events[1].step = "inspect"
        /\ d_events[2].step = IF d_events[1].ok THEN "pull -q" ELSE "pull"
        /\ d_start.project_requirements <=>
            /\ dockerfile = "written"
            /\ \E j \in StepsAt("write_docker_file") : \E k \in StepsAt("build") :
                    2 < j /\ j < k /\ d_events[j].ok

\* C14: without the docker binary run() ends the process with status 1 and
\* neither pulls nor builds; with it the process is never ended: a failed
\* pull is reported through _print (on the console unless quiet) and the
\* requirements check still follows, a failed build is reported and run()
\* returns.
C14_OnlyMissingDockerIsFatal ==
    d_pc # "idle" =>
        /\ ~d_start.installed =>
            /\ d_pc = "exited"
            /\ d_exit = <<1>>
            /\ StepsAt("pull") \cup StepsAt("pull -q") \cup StepsAt("build")
                    \cup StepsAt("write_docker_file") = {}
            /\ dockerfile \in DockerfileStates
        /\ d_start.installed =>
            /\ d_pc # "exited"
            /\ d_exit = <<>>
        /\ PullFailed =>
            /\ DockerLogged("Error: Failed to pull")
            /\ DockerPrinted("Error: Failed to pull") <=> ~d_quiet
            /\ d_start.project_requirements <=> StepsAt("write_docker_file") # {}
        /\ BuildFailed =>
            /\ DockerLogged("Error building Docker image")
            /\ DockerPrinted("Error building Docker image") <=> ~d_quiet
            /\ d_pc = "returned"

\* C14 witness: the pull failed, the requirements file exists, the build
\* failed too, and run() returned.
C14_Witness ==
    /\ d_pc = "returned"
    /\ PullFailed
    /\ BuildFailed
    /\ d_start.project_requirements

\* ------------------------------------------------------------------------
\* Properties of the OpenFrame pin operations
\* ------------------------------------------------------------------------
\* bit k of the non-negative integer v
Bit(v, k) ==
    (v \div (2 ^ k)) % 2

\* the last operation wrote a signal of pin i
WrotePin(i) ==
    \E k \in 1..Len(of_last.writes) : of_last.writes[k].pin = i

\* the last operation read the monitor of pin i
ReadPin(i) ==
    \E k \in 1..Len(of_last.reads) : of_last.reads[k] = i

\* the last operation logged an out-of-range error for pin i, once
LoggedPin(i) ==
    Cardinality({k \in 1..Len(of_last.errors) : of_last.errors[k] = i}) = 1

\* C18: a pin operation given an index at or above the active pin count
\* logs one error for it and returns; drive_gpio and release_gpio write no
\* signal, monitor_gpio reads no signal and returns 0. Inside a range
\* operation the same holds for each out-of-range pin of the range.
C18_OutOfRangeLogsAndDoesNothing ==
    /\ (of_last.op \in {"drive_gpio", "release_gpio", "monitor_gpio"}
            /\ of_last.low >= active_gpios_num) =>
        /\ of_last.errors = <<of_last.low>>
        /\ of_last.writes = <<>>
        /\ of_last.reads = <<>>
        /\ of_last.ret = 0
    /\ \A i \in Pins :
        i >= active_gpios_num =>
            /\ ~WrotePin(i)
            /\ ~ReadPin(i)
            /\ gpio[i] = Unresolved
            /\ gpio_en[i] = Unresolved
            /\ (of_last.op # "none" /\ of_last.low <= i /\ i <= of_last.high)
                    => LoggedPin(i)

\* C18 witness: drive_gpio was called with the index equal to the active pin
\* count; the error is logged and the pin is still undriven.
C18_Witness ==
    /\ of_last.op = "drive_gpio"
    /\ of_last.low = active_gpios_num
    /\ of_last.value = 1
    /\ of_last.errors = <<active_gpios_num>>
    /\ gpio[of_last.low] = Unresolved

\* C19: after drive_gpio_range((high, low), value) every active pin i with
\* low <= i <= high carries bit (i - low) of value and has its enable at 1,
\* and no signal of a pin outside [low, high] was written.
C19_DriveRangeDrivesBits ==
    of_last.op = "drive_gpio_range" =>
        \A i \in Pins :
            IF of_last.low <= i /\ i <= of_last.high
            THEN i < active_gpios_num =>
                    /\ gpio[i] = <<Bit(of_last.value, i - of_last.low)>>
                    /\ gpio_en[i] = <<1>>
            ELSE ~WrotePin(i)

\* C19 witness: range (3, 0) was driven with 0b1010; pins 1 and 3 are high,
\* pins 0 and 2 are low, all four are enabled.
C19_Witness ==
    /\ of_last.op = "drive_gpio_range"
    /\ of_last.high = 3
    /\ of_last.low = 0
    /\ of_last.value = 10
    /\ active_gpios_num = 4
    /\ \A i \in 0..3 : gpio_en[i] = <<1>>
    /\ gpio[0] = <<0>>
    /\ gpio[1] = <<1>>
    /\ gpio[2] = <<0>>
    /\ gpio[3] = <<1>>

\* what monitor_gpio_range has to count for pin i: the monitor value, or 0
\* if the pin is out of range or the value is unresolved
MonitorBit(i) ==
    IF i < active_gpios_num /\ monitor_value(i) # Unresolved
    THEN monitor_value(i)[1]
    ELSE 0

RECURSIVE MonitorSum(_, _, _)
MonitorSum(i, high, low) ==
    IF i > high THEN 0
    ELSE MonitorBit(i) * (2 ^ (i - low)) + MonitorSum(i + 1, high, low)

\* the value monitor_gpio_range((high, low)) returned is the integer whose
\* bit (i - low) is the monitor value of pin i
MonitorRangeValue ==
    of_last.op = "monitor_gpio_range" =>
        of_last.ret = MonitorSum(of_last.low, of_last.high, of_last.low)

\* this step is monitor_gpio_range on the range that the step before drove
\* with drive_gpio_range, the monitors being looped back
MonitorAfterDrive ==
    /\ monitor_src = "loopback"
    /\ of_last.op = "drive_gpio_range"
    /\ of_last'.op = "monitor_gpio_range"
    /\ of_last'.high = of_last.high
    /\ of_last'.low = of_last.low
    /\ of_last.low <= of_last.high

\* C20 (as stated): monitor_gpio_range returns the integer made of the
\* monitor bits, and with looped-back monitors, monitoring a range just
\* driven with value v returns v modulo 2^(high-low+1).
C20_MonitorRangeRoundTrip ==
    /\ []MonitorRangeValue
    /\ [][MonitorAfterDrive =>
            of_last'.ret = of_last.value % (2 ^ (of_last.high - of_last.low + 1))]_vars

\* C20 (amended): monitor_gpio_range returns the integer made of the monitor
\* bits, and with looped-back monitors, monitoring a range just driven with
\* value v returns v modulo 2^(high-low+1) provided every pin of the range
\* is below the active pin count.
C20_MonitorRangeRoundTripInRange ==
    /\ []MonitorRangeValue
    /\ [][(MonitorAfterDrive /\ of_last.high < active_gpios_num) =>
            of_last'.ret = of_last.value % (2 ^ (of_last.high - of_last.low + 1))]_vars

\* C20 witness: range (2, 1) was driven with 0b1010 and then monitored with
\* looped-back monitors; the value read is 0b10.
C20_Witness ==
    /\ of_pc = "second"
    /\ of_last.op = "monitor_gpio_range"
    /\ of_last.high = 2
    /\ of_last.low = 1
    /\ monitor_src = "loopback"
    /\ active_gpios_num = 4
    /\ gpio_en[1] = <<1>>
    /\ gpio_en[2] = <<1>>
    /\ gpio[1] = <<0>>
    /\ gpio[2] = <<1>>
    /\ of_last.ret = 2

\* ------------------------------------------------------------------------
\* Properties of OpenFrame_env.start_up
\* ------------------------------------------------------------------------
\* start_up has done ev
Did(ev) ==
    \E k \in 1..Len(su_log) : su_log[k].ev = ev

\* the clock edge count at which start_up did ev
EdgeOf(ev) ==
    su_log[CHOOSE k \in 1..Len(su_log) : su_log[k].ev = ev].at

\* every supply rail carries v
SuppliesAt(v) ==
    \A r \in SupplyRails : power[r] = <<v>>

\* the order in which start_up does things
StartUpOrder ==
    <<"info: start powering up", "set_vdd(0)",
      "info: power up -> connect vdd", "set_vdd(1)",
      "info: start resetting", "resetb_tb = 0", "resetb_tb = 1",
      "info: finish resetting", "gpio_en = 0", "return">>

\* the state of C21: what has been done so far, and when
StartUpSequence ==
    /\ Len(su_log) <= Len(StartUpOrder)
    /\ \A k \in 1..Len(su_log) : su_log[k].ev = StartUpOrder[k]
    /\ su_pc # "idle" =>
          /\ Did("set_vdd(0)")
          /\ \A r \in GroundRails : power[r] = <<0>>
    /\ (Did("set_vdd(0)") /\ ~Did("set_vdd(1)")) =>
          /\ SuppliesAt(0)
          /\ clk_edges - EdgeOf("set_vdd(0)") <= 10
          /\ resetb_tb = Unresolved
    /\ Did("set_vdd(1)") =>
          /\ SuppliesAt(1)
          /\ EdgeOf("set_vdd(1)") - EdgeOf("set_vdd(0)") = 10
    /\ ~Did("resetb_tb = 0") => resetb_tb = Unresolved
    /\ Did("resetb_tb = 0") =>
          /\ EdgeOf("resetb_tb = 0") - EdgeOf("set_vdd(1)") = 10
          /\ resetb_tb = IF Did("resetb_tb = 1") THEN <<1>> ELSE <<0>>
    /\ Did("resetb_tb = 1") =>
          EdgeOf("resetb_tb = 1") - EdgeOf("resetb_tb = 0") = 20
    /\ Did("gpio_en = 0") =>
          /\ EdgeOf("gpio_en = 0") > EdgeOf("resetb_tb = 1")
          /\ \A i \in Pins : i < active_gpios_num => gpio_en[i] = <<0>>
    /\ resetb_tb # Unresolved => SuppliesAt(1)

\* the step of C21: the reset and the pin enables change only with the
\* supplies at 1, the pin enables only after the reset is released
StartUpStep ==
    /\ resetb_tb' # resetb_tb => (SuppliesAt(1) /\ power' = power)
    /\ gpio_en' # gpio_en =>
          /\ resetb_tb = <<1>>
          /\ resetb_tb' = <<1>>
          /\ Did("resetb_tb = 1")
          /\ \A i \in Pins : i >= active_gpios_num => gpio_en'[i] = gpio_en[i]

\* C21: start_up holds the supplies at 0 for 10 clock cycles and then at 1
\* for 10 (the grounds always at 0), only then drives resetb_tb to 0, keeps
\* it there for 20 cycles and releases it to 1, and only after that clears
\* the enables of the active pins; the reset never changes while the
\* supplies are at 0.
C21_StartUpSequential ==
    []StartUpSequence /\ [][StartUpStep]_vars

\* C21 witness: start_up returned after 42 clock cycles on a design with
\* two active pins; their enables are cleared and the enable of pin 3, set
\* before, was left alone.
C21_Witness ==
    /\ su_pc = "done"
    /\ clk_edges = 42
    /\ active_gpios_num = 2
    /\ gpio_en[0] = <<0>>
    /\ gpio_en[1] = <<0>>
    /\ gpio_en[3] = <<1>>
    /\ resetb_tb = <<1>>
    /\ SuppliesAt(1)
====
